---- MODULE Spec2Model ----
(***************************************************************************)
(* A model of the DDV ("Masher") frame decoder of src/src/oddlib/masher.cpp *)
(* The module holds several state machines over one set of variables:      *)
(*   SpecContainer  Masher::Read and Masher::Update over a byte stream      *)
(*   SpecVideo      Masher::ParseVideoFrame, macroblock by macroblock       *)
(*   SpecVlc        decode_bitstream, one loop iteration per step           *)
(*   SpecAudio      Masher::decode_audio_frame / decode_16bit_audio_frame   *)
(* Each specification leaves the variables of the other machines at their  *)
(* initial values.                                                         *)
(***************************************************************************)
EXTENDS Integers, Sequences, FiniteSets, TLC

VARIABLES
    \* ---- container reader (Masher::Read, Masher::Update) ----
    stream,             \* the bytes behind mStream (a sequence of 0..255)
    masher,             \* the Masher object: its member fields, mStreamPos = mStream->Pos()
    phase,              \* "new" (Read not run yet), "open", "failed" (Read threw)
    thrown,             \* the exception that left the last call, or NoException
    updateCalls,        \* history: one record per Update call, in call order
    \* ---- video frame (Masher::ParseVideoFrame) ----
    video,
    \* ---- variable-length decoder (decode_bitstream) ----
    vlc,
    \* ---- audio frame (decode_audio_frame) ----
    audio,
    \* ---- music themes and players (Sound, sound.cpp) ----
    sound

containerVars == <<stream, masher, phase, thrown, updateCalls>>

vars == <<stream, masher, phase, thrown, updateCalls, video, vlc, audio, sound>>

(***************************************************************************)
(* Bounds of the model.                                                    *)
(***************************************************************************)
MaxFrames == 2          \* numberOfFrames of the generated streams is 0..MaxFrames
MaxExtraCalls == 2      \* Update calls made after the last frame
MaxFrameBytes == 2      \* bytes of video and of audio payload per frame: 0..MaxFrameBytes
MaxInterleave == 1      \* interleaveCount of the generated streams is 0..MaxInterleave
MaxMacroblocks == 4     \* ParseVideoFrame is run on pictures of at most this many macroblocks
MaxOverReads == 2       \* decode_bitstream is followed for this many reads past the payload
MaxSamples == 5         \* samplesPerFrame of the audio frames is 0..MaxSamples
MaxPredicted == 6       \* samplesPerFrame of the frames the predictor is followed on
MaxReads == 3           \* NextSoundBits calls followed one by one on a raw frame
MaxBlockWords == 2      \* run-level words of the blocks ddv_func7_DecodeMacroBlock_impl is run on alone

(***************************************************************************)
(* Program constants.                                                      *)
(***************************************************************************)
kVideoFlag == 1
kAudioFlag == 2
kMacroBlockWidth == 16
kMacroBlockHeight == 16
kNumberOfBlocks == 6

(***************************************************************************)
(* Integer helpers.                                                        *)
(***************************************************************************)
Pow2(n) == 2 ^ n

\* bit i of the non-negative integer v
Bit(v, i) == (v \div Pow2(i)) % 2

\* v & mask for a single-bit mask 2^i, as the C expression (v & flag) == flag
HasFlag(v, flag) == (v \div flag) % 2 = 1

RECURSIVE SeqSum(_)
SeqSum(s) == IF s = <<>> THEN 0 ELSE Head(s) + SeqSum(Tail(s))

RECURSIVE Repeat(_, _)
Repeat(x, n) == IF n <= 0 THEN <<>> ELSE <<x>> \o Repeat(x, n - 1)

\* the sequence f[1], ..., f[n] of a function on 1..n, element by element
Eager(f) == SubSeq(f, 1, Len(f))

RECURSIVE Flatten(_)
Flatten(ss) == IF ss = <<>> THEN <<>> ELSE Head(ss) \o Flatten(Tail(ss))

(***************************************************************************)
(* The byte stream (Oddlib::IStream).  A read that the stream cannot       *)
(* satisfy throws.                                                         *)
(***************************************************************************)
NoException == [type |-> "none", what |-> ""]
StreamException == [type |-> "Exception", what |-> "Read failure"]

\* little-endian encodings, used to build streams
LE16(v) == <<v % 256, (v \div 256) % 256>>
LE32(v) == <<v % 256, (v \div 256) % 256, (v \div 65536) % 256, (v \div 16777216) % 256>>

\* MakeType("DDV\0"): the four characters as a little-endian u32
MakeType(c) == c[1] + 256 * c[2] + 65536 * c[3] + 16777216 * c[4]
DdvTag == <<68, 68, 86, 0>>

CanRead(s, pos, n) == pos + n <= Len(s)
U16At(s, pos) == s[pos + 1] + 256 * s[pos + 2]
U32At(s, pos) == s[pos + 1] + 256 * s[pos + 2] + 65536 * s[pos + 3] + 16777216 * s[pos + 4]
BytesAt(s, pos, n) == SubSeq(s, pos + 1, pos + n)


\* mStream->Read of consecutive little-endian fields of the given byte sizes
\* (2 or 4), starting at pos: the values read, in order, up to the first field
\* the stream cannot satisfy.
RECURSIVE ReadFields(_, _, _)
ReadFields(s, pos, sizes) ==
    IF sizes = <<>> THEN [ok |-> TRUE, pos |-> pos, vals |-> <<>>]
    ELSE IF ~CanRead(s, pos, Head(sizes)) THEN [ok |-> FALSE, pos |-> pos, vals |-> <<>>]
    ELSE LET v == IF Head(sizes) = 4 THEN U32At(s, pos) ELSE U16At(s, pos)
             r == ReadFields(s, pos + Head(sizes), Tail(sizes))
         IN  [ok |-> r.ok, pos |-> r.pos, vals |-> <<v>> \o r.vals]

\* the fields names[1..Len(vals)] of rec set to vals, the others kept
Assign(rec, names, vals) ==
    [k \in DOMAIN rec |->
        IF \E i \in 1..Len(vals) : names[i] = k
        THEN vals[CHOOSE i \in 1..Len(vals) : names[i] = k]
        ELSE rec[k]]

\* std::vector::resize: keeps the first n elements, value-initialises new ones
Resize(v, n) == [i \in 1..n |-> IF i <= Len(v) THEN v[i] ELSE 0]

(***************************************************************************)
(* Masher: the object before Read() has run.                               *)
(***************************************************************************)
NewMasher ==
    [mStreamPos |-> 0,
     mFileHeader |-> [mDdvTag |-> 0, mDdvVersion |-> 0, mContains |-> 0,
                      mFrameRate |-> 0, mNumberOfFrames |-> 0],
     mVideoHeader |-> [mUnknown |-> 0, mWidth |-> 0, mHeight |-> 0,
                       mMaxAudioFrameSize |-> 0, mMaxVideoFrameSize |-> 0,
                       mKeyFrameRate |-> 0],
     mAudioHeader |-> [mAudioFormat |-> 0, mSampleRate |-> 0, mMaxAudioFrameSize |-> 0,
                       mSingleAudioFrameSize |-> 0, mNumberOfFramesInterleave |-> 0],
     mbHasVideo |-> FALSE,
     mbHasAudio |-> FALSE,
     mNumMacroblocksX |-> 0,
     mNumMacroblocksY |-> 0,
     mAudioFrameSizes |-> <<>>,
     mFrameSizes |-> <<>>,
     mCurrentFrame |-> 0,
     mVideoFrameData |-> <<>>,
     mAudioFrameData |-> <<>>]

FileHeaderRest == <<"mContains", "mFrameRate", "mNumberOfFrames">>
VideoHeaderFields == <<"mUnknown", "mWidth", "mHeight", "mMaxAudioFrameSize",
                       "mMaxVideoFrameSize", "mKeyFrameRate">>
VideoHeaderSizes == <<4, 2, 2, 4, 4, 4>>
AudioHeaderFields == <<"mAudioFormat", "mSampleRate", "mMaxAudioFrameSize",
                       "mSingleAudioFrameSize", "mNumberOfFramesInterleave">>

InvalidDdv(what) == [type |-> "InvalidDdv", what |-> what]

(***************************************************************************)
(* Masher::Read                                                            *)
(***************************************************************************)
\* masher.cpp:22  mFileHeader.mDdvTag != MakeType("DDV\0") is the failure
TagIsDdv(tag) == tag = MakeType(DdvTag)

VersionIsSupported_Mutant(version) == version = 2

\* masher.cpp:29  mFileHeader.mDdvVersion != 1 is the failure
VersionIsSupported(version) == version = 1

NumMacroblocks_Mutant(pixels, blockSize) == pixels \div blockSize

\* masher.cpp:52-56 and 58-62: the division, plus one when there is a remainder
NumMacroblocks(pixels, blockSize) ==
    (pixels \div blockSize) + (IF pixels % blockSize # 0 THEN 1 ELSE 0)

ReadFrameTable_Mutant(s, m) ==
    LET n == m.mFileHeader.mNumberOfFrames
        r == ReadFields(s, m.mStreamPos + SeqSum(m.mAudioFrameSizes), Repeat(4, n))
        m1 == [m EXCEPT !.mStreamPos = r.pos,
                        !.mFrameSizes = r.vals \o Repeat(0, n - Len(r.vals))]
    IN  IF ~r.ok THEN [m |-> m1, thrown |-> StreamException]
        ELSE [m |-> [m1 EXCEPT !.mAudioFrameData =
                                   Resize(m1.mAudioFrameData, m1.mVideoHeader.mMaxAudioFrameSize)],
              thrown |-> NoException]

\* lines 82-101: the frame size table, then the seek over the interleave payloads
\* and the resize of the raw audio buffer (the sizes of mMacroBlockBuffer and
\* mDecodedVideoFrameData are not part of the model)
ReadFrameTable(s, m) ==
    LET n == m.mFileHeader.mNumberOfFrames
        r == ReadFields(s, m.mStreamPos, Repeat(4, n))
        m1 == [m EXCEPT !.mStreamPos = r.pos,
                        !.mFrameSizes = r.vals \o Repeat(0, n - Len(r.vals))]
    IN  IF ~r.ok THEN [m |-> m1, thrown |-> StreamException]
        ELSE [m |-> [m1 EXCEPT !.mStreamPos = r.pos + SeqSum(m1.mAudioFrameSizes),
                               !.mAudioFrameData =
                                   Resize(m1.mAudioFrameData, m1.mVideoHeader.mMaxAudioFrameSize)],
              thrown |-> NoException]

\* lines 65-80: the audio header and the interleave size table
ReadAudioHeader(s, m) ==
    IF ~m.mbHasAudio THEN ReadFrameTable(s, m)
    ELSE LET r == ReadFields(s, m.mStreamPos, <<4, 4, 4, 4, 4>>)
             m1 == [m EXCEPT !.mStreamPos = r.pos,
                             !.mAudioHeader = Assign(@, AudioHeaderFields, r.vals)]
         IN  IF ~r.ok THEN [m |-> m1, thrown |-> StreamException]
             ELSE LET k == m1.mAudioHeader.mNumberOfFramesInterleave
                      t == ReadFields(s, m1.mStreamPos, Repeat(4, k))
                      m2 == [m1 EXCEPT !.mStreamPos = t.pos,
                                       !.mAudioFrameSizes = t.vals \o Repeat(0, k - Len(t.vals))]
                  IN  IF ~t.ok THEN [m |-> m2, thrown |-> StreamException]
                      ELSE ReadFrameTable(s, m2)

\* lines 43-63: the video header and the macroblock counts
ReadVideoHeader(s, m) ==
    IF ~m.mbHasVideo THEN ReadAudioHeader(s, m)
    ELSE LET r == ReadFields(s, m.mStreamPos, VideoHeaderSizes)
             m1 == [m EXCEPT !.mStreamPos = r.pos,
                             !.mVideoHeader = Assign(@, VideoHeaderFields, r.vals)]
         IN  IF ~r.ok THEN [m |-> m1, thrown |-> StreamException]
             ELSE ReadAudioHeader(s,
                     [m1 EXCEPT !.mNumMacroblocksX =
                                    NumMacroblocks(m1.mVideoHeader.mWidth, kMacroBlockWidth),
                                !.mNumMacroblocksY =
                                    NumMacroblocks(m1.mVideoHeader.mHeight, kMacroBlockHeight)])

\* lines 36-41: the rest of the file header and the two flags
ReadFileHeaderRest(s, m) ==
    LET r == ReadFields(s, m.mStreamPos, <<4, 4, 4>>)
        m1 == [m EXCEPT !.mStreamPos = r.pos,
                        !.mFileHeader = Assign(@, FileHeaderRest, r.vals)]
    IN  IF ~r.ok THEN [m |-> m1, thrown |-> StreamException]
        ELSE ReadVideoHeader(s,
                [m1 EXCEPT !.mbHasVideo = HasFlag(m1.mFileHeader.mContains, kVideoFlag),
                           !.mbHasAudio = HasFlag(m1.mFileHeader.mContains, kAudioFlag)])

\* lines 28-34: the version and its check
ReadVersion(s, m) ==
    LET r == ReadFields(s, m.mStreamPos, <<4>>)
    IN  IF ~r.ok THEN [m |-> m, thrown |-> StreamException]
        ELSE LET m1 == [m EXCEPT !.mStreamPos = r.pos,
                                 !.mFileHeader.mDdvVersion = r.vals[1]]
             IN  IF ~VersionIsSupported(m1.mFileHeader.mDdvVersion)
                 THEN [m |-> m1, thrown |-> InvalidDdv("Wrong DDV version")]
                 ELSE ReadFileHeaderRest(s, m1)

\* lines 19-26, and from there the whole of Masher::Read
ReadImpl(s, m) ==
    LET r == ReadFields(s, m.mStreamPos, <<4>>)
    IN  IF ~r.ok THEN [m |-> m, thrown |-> StreamException]
        ELSE LET m1 == [m EXCEPT !.mStreamPos = r.pos,
                                 !.mFileHeader.mDdvTag = r.vals[1]]
             IN  IF ~TagIsDdv(m1.mFileHeader.mDdvTag)
                 THEN [m |-> m1, thrown |-> InvalidDdv("Invalid DDV tag")]
                 ELSE ReadVersion(s, m1)


(***************************************************************************)
(* Masher::Update                                                          *)
(***************************************************************************)
HasMoreFrames_Mutant(m) == m.mCurrentFrame <= m.mFileHeader.mNumberOfFrames

\* masher.cpp:993  mCurrentFrame < mFileHeader.mNumberOfFrames
HasMoreFrames(m) == m.mCurrentFrame < m.mFileHeader.mNumberOfFrames

\* mFrameSizes[mCurrentFrame]; an index past the table (which only a wrong
\* frame test can produce) reads as 0
FrameSizeAt(m) ==
    IF m.mCurrentFrame + 1 \in DOMAIN m.mFrameSizes THEN m.mFrameSizes[m.mCurrentFrame + 1] ELSE 0

\* line 1009, totalSize - videoDataSize in uint32_t: the difference modulo
\* 2^32, as its two 16-bit halves
Sub32(a, b) == [hi |-> ((a - b) \div 65536) % 65536, lo |-> (a - b) % 65536]

\* a stream of the model is shorter than 2^16 bytes: it holds size more bytes
\* only if the high half of size is 0
CanRead32(s, pos, size) == size.hi = 0 /\ CanRead(s, pos, size.lo)

\* lines 995-1016: video and audio in one frame
ReadVideoAndAudio(s, m) ==
    LET r == ReadFields(s, m.mStreamPos, <<4>>)
    IN  IF ~r.ok THEN [m |-> m, thrown |-> StreamException]
        ELSE LET videoDataSize == r.vals[1]
                 totalSize == FrameSizeAt(m)
                 audioDataSize32 == Sub32(totalSize, videoDataSize)
                 audioDataSize == audioDataSize32.lo
             IN  IF ~CanRead(s, r.pos, videoDataSize)
                 THEN [m |-> [m EXCEPT !.mStreamPos = r.pos,
                                       !.mVideoFrameData = Resize(@, videoDataSize)],
                       thrown |-> StreamException]
                 ELSE IF ~CanRead32(s, r.pos + videoDataSize, audioDataSize32)
                 THEN [m |-> [m EXCEPT !.mStreamPos = r.pos + videoDataSize,
                                       !.mVideoFrameData = BytesAt(s, r.pos, videoDataSize)],
                       thrown |-> StreamException]
                 ELSE [m |-> [m EXCEPT !.mStreamPos = r.pos + videoDataSize + audioDataSize,
                                       !.mVideoFrameData = BytesAt(s, r.pos, videoDataSize),
                                       !.mAudioFrameData =
                                           BytesAt(s, r.pos + videoDataSize, audioDataSize)],
                       thrown |-> NoException]

\* lines 1017-1023: audio only; the buffer is four bytes longer than the frame
ReadAudioOnly(s, m) ==
    LET totalSize == FrameSizeAt(m)
        buf == Resize(m.mAudioFrameData, totalSize + 4)
    IN  IF ~CanRead(s, m.mStreamPos, totalSize)
        THEN [m |-> [m EXCEPT !.mAudioFrameData = buf], thrown |-> StreamException]
        ELSE [m |-> [m EXCEPT !.mStreamPos = m.mStreamPos + totalSize,
                              !.mAudioFrameData =
                                  BytesAt(s, m.mStreamPos, totalSize)
                                      \o SubSeq(buf, totalSize + 1, totalSize + 4)],
              thrown |-> NoException]

\* lines 1024-1030: video only
ReadVideoOnly(s, m) ==
    LET totalSize == FrameSizeAt(m)
    IN  IF ~CanRead(s, m.mStreamPos, totalSize)
        THEN [m |-> [m EXCEPT !.mVideoFrameData = Resize(@, totalSize)],
              thrown |-> StreamException]
        ELSE [m |-> [m EXCEPT !.mStreamPos = m.mStreamPos + totalSize,
                              !.mVideoFrameData = BytesAt(s, m.mStreamPos, totalSize)],
              thrown |-> NoException]

\* The whole of Masher::Update(pixelBuffer, audioBuffer); hasAudioBuffer says
\* whether audioBuffer is non-null.  The result records what the call returned
\* ("true", "false" or "threw") and which frame parsers it ran; what the
\* parsers do to the buffers is the subject of SpecVideo and SpecAudio.
UpdateImpl(s, m, hasAudioBuffer) ==
    IF HasMoreFrames(m)
    THEN LET r == IF m.mbHasVideo /\ m.mbHasAudio THEN ReadVideoAndAudio(s, m)
                  ELSE IF m.mbHasAudio THEN ReadAudioOnly(s, m)
                  ELSE IF m.mbHasVideo THEN ReadVideoOnly(s, m)
                  ELSE [m |-> m, thrown |-> NoException]
         IN  IF r.thrown # NoException
             THEN [m |-> r.m, thrown |-> r.thrown, result |-> "threw",
                   parsedVideo |-> FALSE, parsedAudio |-> FALSE]
             ELSE [m |-> [r.m EXCEPT !.mCurrentFrame = @ + 1],
                   thrown |-> NoException, result |-> "true",
                   parsedVideo |-> m.mbHasVideo,
                   parsedAudio |-> m.mbHasAudio /\ hasAudioBuffer]
    ELSE [m |-> m, thrown |-> NoException, result |-> "false",
          parsedVideo |-> FALSE, parsedAudio |-> FALSE]

(***************************************************************************)
(* The streams of the container model: built from a parameter record in    *)
(* the layout Masher::Read parses.                                         *)
(***************************************************************************)
\* the filler byte of each kind of payload
FillByte(kind) == CASE kind = "video" -> 170 [] kind = "audio" -> 85 [] OTHER -> 7

\* the frame size table entry of a frame holding v video and a audio bytes
FrameSizeOf(contains, f) ==
    IF HasFlag(contains, kVideoFlag) /\ HasFlag(contains, kAudioFlag) THEN f.v + f.a
    ELSE IF HasFlag(contains, kAudioFlag) THEN f.a
    ELSE IF HasFlag(contains, kVideoFlag) THEN f.v
    ELSE f.v + f.a

FramePayload(contains, f) ==
    IF HasFlag(contains, kVideoFlag) /\ HasFlag(contains, kAudioFlag)
    THEN LE32(f.v) \o Repeat(FillByte("video"), f.v) \o Repeat(FillByte("audio"), f.a)
    ELSE IF HasFlag(contains, kAudioFlag) THEN Repeat(FillByte("audio"), f.a)
    ELSE IF HasFlag(contains, kVideoFlag) THEN Repeat(FillByte("video"), f.v)
    ELSE <<>>

MakeStream(p) ==
    LET n == Len(p.frames)
        k == Len(p.interleave)
        all ==
            p.tag \o LE32(p.version) \o LE32(p.contains) \o LE32(15) \o LE32(n)
            \o (IF HasFlag(p.contains, kVideoFlag)
                THEN LE32(0) \o LE16(p.dims[1]) \o LE16(p.dims[2])
                     \o LE32(MaxFrameBytes) \o LE32(MaxFrameBytes) \o LE32(1)
                ELSE <<>>)
            \o (IF HasFlag(p.contains, kAudioFlag)
                THEN LE32(1) \o LE32(22050) \o LE32(MaxFrameBytes) \o LE32(p.samples)
                     \o LE32(k) \o Flatten([i \in 1..k |-> LE32(p.interleave[i])])
                ELSE <<>>)
            \o Flatten([i \in 1..n |-> LE32(FrameSizeOf(p.contains, p.frames[i]))])
            \o (IF HasFlag(p.contains, kAudioFlag)
                THEN Flatten([i \in 1..k |-> Repeat(FillByte("prebuffer"), p.interleave[i])])
                ELSE <<>>)
            \o Flatten([i \in 1..n |-> FramePayload(p.contains, p.frames[i])])
    IN  IF p.cut < 0 THEN all ELSE SubSeq(all, 1, p.cut)


\* frame i of a stream of shape (sv, sa): the payload sizes differ from frame
\* to frame
FrameShape(i, sv, sa) ==
    [v |-> (i + sv) % (MaxFrameBytes + 1), a |-> (2 * i + sa) % (MaxFrameBytes + 1)]

DefaultParams ==
    [tag |-> DdvTag, version |-> 1, contains |-> 3, dims |-> <<16, 16>>, samples |-> 8,
     frames |-> <<FrameShape(1, 0, 0)>>, interleave |-> <<>>, cut |-> -1]

ContainsValues == {0, 1, 2, 3, 5, 6}
BadTags == {<<68, 68, 86, 1>>, <<69, 68, 86, 0>>, <<68, 68, 0, 0>>, <<0, 0, 0, 0>>, <<86, 68, 68, 0>>}
BadVersions == {0, 2, 257, 65536, 16777217}
DimPairs == {<<0, 0>>, <<0, 16>>, <<16, 0>>, <<1, 1>>, <<15, 17>>, <<16, 16>>, <<17, 15>>,
             <<31, 33>>, <<32, 48>>, <<300, 200>>, <<320, 240>>, <<65520, 65535>>,
             <<65521, 4097>>, <<65535, 65521>>}

StreamParams ==
    \* well-formed streams: every flag combination, frame count and payload shape
    { [DefaultParams EXCEPT !.contains = c,
                            !.frames = [i \in 1..n |-> FrameShape(i, sv, sa)],
                            !.interleave = [i \in 1..k |-> i]] :
        c \in ContainsValues, n \in 0..MaxFrames, sv \in 0..MaxFrameBytes,
        sa \in 0..MaxFrameBytes, k \in 0..MaxInterleave }
    \* every picture size
    \cup { [DefaultParams EXCEPT !.contains = c, !.dims = d] :
             c \in {1, 3}, d \in DimPairs }
    \* a wrong tag, with the rest of the stream present or cut off after the tag
    \cup { [DefaultParams EXCEPT !.tag = g, !.version = v, !.cut = x] :
             g \in BadTags, v \in {1, 2}, x \in {-1, 4} }
    \* a wrong version, with the rest present or cut off after the version
    \cup { [DefaultParams EXCEPT !.version = v, !.cut = x] :
             v \in BadVersions, x \in {-1, 8} }
    \* a well-formed header cut short
    \cup { [DefaultParams EXCEPT !.cut = x] : x \in {0, 3, 4, 7, 8, 12, 19, 20, 30, 40, 56} }

\* the values of the variables of a machine that a specification does not run
IdleVideo == [pc |-> "idle"]
IdleVlc == [pc |-> "idle"]
IdleAudio == [pc |-> "idle"]
IdleSound == [pc |-> "idle"]

InitContainer ==
    /\ \E p \in StreamParams : stream = MakeStream(p)
    /\ masher = NewMasher
    /\ phase = "new"
    /\ thrown = NoException
    /\ updateCalls = <<>>
    /\ video = IdleVideo
    /\ vlc = IdleVlc
    /\ sound = IdleSound
    /\ audio = IdleAudio

\* Masher::Read, run once on the new object
Read ==
    /\ phase = "new"
    /\ LET r == ReadImpl(stream, masher)
       IN  /\ masher' = r.m
           /\ thrown' = r.thrown
           /\ phase' = IF r.thrown = NoException THEN "open" ELSE "failed"
    /\ UNCHANGED <<stream, updateCalls, video, vlc, audio, sound>>

\* Masher::Update(pixelBuffer, audioBuffer), audioBuffer null or not
Update ==
    /\ phase = "open"
    /\ Len(updateCalls) < masher.mFileHeader.mNumberOfFrames + MaxExtraCalls
    /\ \E hasAudioBuffer \in BOOLEAN :
         LET r == UpdateImpl(stream, masher, hasAudioBuffer)
         IN  /\ masher' = r.m
             /\ thrown' = r.thrown
             /\ updateCalls' = Append(updateCalls,
                    [result |-> r.result,
                     frameBefore |-> masher.mCurrentFrame,
                     frameAfter |-> r.m.mCurrentFrame,
                     posBefore |-> masher.mStreamPos,
                     posAfter |-> r.m.mStreamPos,
                     parsedVideo |-> r.parsedVideo,
                     parsedAudio |-> r.parsedAudio])
    /\ UNCHANGED <<stream, phase, video, vlc, audio, sound>>

NextContainer == Read \/ Update

SpecContainer == InitContainer /\ [][NextContainer]_vars


(***************************************************************************)
(* Claims about the container reader.                                      *)
(***************************************************************************)
\* what the stream itself declares, read off its bytes
DeclaredTag == BytesAt(stream, 0, 4)
DeclaredVersion == U32At(stream, 4)
DeclaredFrames == U32At(stream, 16)

\* C1: for a Masher whose header declares numberOfFrames = N, the first N
\* Update calls return true and advance the current frame by one each, and
\* every later call returns false, reads nothing from the stream and leaves
\* the frame counter unchanged, whatever the has-video/has-audio flags are.
C1_UpdateCountsFrames ==
    phase = "open" =>
        \A i \in 1..Len(updateCalls) :
            LET c == updateCalls[i]
            IN  /\ c.frameBefore = i - 1 \/ c.frameBefore = DeclaredFrames
                /\ i <= DeclaredFrames =>
                      /\ c.result = "true"
                      /\ c.frameBefore = i - 1
                      /\ c.frameAfter = c.frameBefore + 1
                /\ i > DeclaredFrames =>
                      /\ c.result = "false"
                      /\ c.frameAfter = c.frameBefore
                      /\ c.frameAfter = DeclaredFrames
                      /\ c.posAfter = c.posBefore

\* a stream with video and audio and two frames, on which Update has been
\* called twice with success and twice more after the last frame
C1_Witness ==
    /\ phase = "open"
    /\ masher.mbHasVideo /\ masher.mbHasAudio
    /\ DeclaredFrames = 2
    /\ Len(updateCalls) = 4
    /\ updateCalls[2].result = "true"
    /\ updateCalls[2].posAfter > updateCalls[2].posBefore
    /\ updateCalls[4].result = "false"

\* C2: Read fails with the bad-tag error on every stream whose first four
\* bytes are not 'DDV\0' and with a different error on every stream that has
\* the tag and a version other than 1; in both cases nothing after the failing
\* field is read.  (Both errors are InvalidDdv exceptions; the message tells
\* them apart.)
C2_HeaderValidation ==
    phase # "new" =>
        /\ (Len(stream) >= 4 /\ DeclaredTag # DdvTag) =>
              /\ phase = "failed"
              /\ thrown = [type |-> "InvalidDdv", what |-> "Invalid DDV tag"]
              /\ masher.mStreamPos = 4
              /\ masher = [NewMasher EXCEPT !.mStreamPos = 4,
                                            !.mFileHeader.mDdvTag = masher.mFileHeader.mDdvTag]
        /\ (Len(stream) >= 8 /\ DeclaredTag = DdvTag /\ DeclaredVersion # 1) =>
              /\ phase = "failed"
              /\ thrown = [type |-> "InvalidDdv", what |-> "Wrong DDV version"]
              /\ thrown # [type |-> "InvalidDdv", what |-> "Invalid DDV tag"]
              /\ masher.mStreamPos = 8
              /\ masher = [NewMasher EXCEPT !.mStreamPos = 8,
                                            !.mFileHeader.mDdvTag = MakeType(DdvTag),
                                            !.mFileHeader.mDdvVersion = DeclaredVersion]

\* Read has rejected a stream that has the tag, version 2 and more bytes
\* after the version
C2_Witness ==
    /\ phase = "failed"
    /\ Len(stream) > 8
    /\ DeclaredTag = DdvTag
    /\ DeclaredVersion = 2
    /\ thrown.what = "Wrong DDV version"


(***************************************************************************)
(* The video frame decoder: constant tables.                               *)
(***************************************************************************)
MDEC_END == 65024       \* 0xFE00
EscapeWord == 31775     \* 0x7C1F
MASK_10_BITS == 1023    \* 0x3FF

gQuant1_dword_42AEC8 ==
    <<
      12, 11, 10, 12, 14, 14, 13, 14,
      16, 24, 19, 16, 17, 18, 24, 22,
      22, 24, 26, 40, 51, 58, 40, 29,
      37, 35, 49, 72, 64, 55, 56, 51,
      57, 60, 61, 55, 69, 87, 68, 64,
      78, 92, 95, 87, 81, 109, 80, 56,
      62, 103, 104, 103, 98, 112, 121, 113,
      77, 92, 120, 100, 103, 101, 99, 16
    >>

gQaunt2_dword_42AFC4 ==
    <<
      16, 18, 18, 24, 21, 24, 47, 26,
      26, 47, 99, 66, 56, 66, 99, 99,
      99, 99, 99, 99, 99, 99, 99, 99,
      99, 99, 99, 99, 99, 99, 99, 99,
      99, 99, 99, 99, 99, 99, 99, 99,
      99, 99, 99, 99, 99, 99, 99, 99,
      99, 99, 99, 99, 99, 99, 99, 99,
      99, 99, 99, 99, 99, 99, 99, 99
    >>

g_index_look_up_table ==
    <<
      1, 8, 16, 9, 2, 3, 10, 17,
      24, 32, 25, 18, 11, 4, 5, 12,
      19, 26, 33, 40, 48, 41, 34, 27,
      20, 13, 6, 7, 14, 21, 28, 35,
      42, 49, 56, 57, 50, 43, 36, 29,
      22, 15, 23, 30, 37, 44, 51, 58,
      59, 52, 45, 38, 31, 39, 46, 53,
      60, 61, 54, 47, 55, 62, 63, 2446
    >>

RL_ZSCAN_MATRIX_2 ==
    <<
      0, 1, 8, 16, 9, 2, 3, 10,
      17, 24, 32, 25, 18, 11, 4, 5,
      12, 19, 26, 33, 40, 48, 41, 34,
      27, 20, 13, 6, 7, 14, 21, 28,
      35, 42, 49, 56, 57, 50, 43, 36,
      29, 22, 15, 23, 30, 37, 44, 51,
      58, 59, 52, 45, 38, 31, 39, 46,
      53, 60, 61, 54, 47, 55, 62, 63
    >>

g_block_related_2_dword_42B0CC ==
    <<
      8, 16, 9, 2, 3, 10, 17, 24,
      32, 25, 18, 11, 4, 5, 12, 19,
      26, 33, 40, 48, 41, 34, 27, 20,
      13, 6, 7, 14, 21, 28, 35, 42,
      49, 56, 57, 50, 43, 36, 29, 22,
      15, 23, 30, 37, 44, 51, 58, 59,
      52, 45, 38, 31, 39, 46, 53, 60,
      61, 54, 47, 55, 62, 63, 2446, 2446
    >>

g_block_related_3_dword_42B0D0 ==
    <<
      16, 9, 2, 3, 10, 17, 24, 32,
      25, 18, 11, 4, 5, 12, 19, 26,
      33, 40, 48, 41, 34, 27, 20, 13,
      6, 7, 14, 21, 28, 35, 42, 49,
      56, 57, 50, 43, 36, 29, 22, 15,
      23, 30, 37, 44, 51, 58, 59, 52,
      45, 38, 31, 39, 46, 53, 60, 61,
      54, 47, 55, 62, 63, 2446, 2446, 62340
    >>


\* entry i (counted from 0, as in the source) of a 64-entry table
At(table, i) == table[i + 1]

(***************************************************************************)
(* Fixed-width helpers.  A 32-bit slot of the macroblock buffer is kept as *)
(* its two 16-bit halves.                                                  *)
(***************************************************************************)
SignExtend10(v) == IF v >= 512 THEN v - 1024 ELSE v
SignExtend16(v) == IF v >= 32768 THEN v - 65536 ELSE v

\* the u32 that holds the (possibly negative) int v
SlotOf(v) == [hi |-> (v \div 65536) % 65536, lo |-> v % 65536]
ZeroSlot == [hi |-> 0, lo |-> 0]

Dequantize_Mutant(quant, level) == ((quant * level) \div 8) % 65536

\* static_cast<u16>((pTable[q_scale] * level + 4) >> 3), lines 435 and 474:
\* the product is taken in u32 and shifted logically, which leaves in the low
\* 16 bits what the arithmetic shift of the signed product leaves there
Dequantize(quant, level) == ((quant * level + 4) \div 8) % 65536

(***************************************************************************)
(* after_block_decode_no_effect_q_impl: the two dequantization arrays.     *)
(* g_252_buffer_unk_63580C is the luma array, g_252_buffer_unk_635A0C the  *)
(* chroma array.                                                           *)
(***************************************************************************)
after_block_decode_no_effect_q_impl_Mutant(quantScale) ==
    IF quantScale > 0
    THEN [g_252_buffer_unk_63580C |->
              Eager([i \in 1..64 |-> IF i = 1 THEN 16
                                     ELSE quantScale * At(gQuant1_dword_42AEC8, i - 2)]),
          g_252_buffer_unk_635A0C |->
              Eager([i \in 1..64 |-> IF i = 1 THEN 16
                                     ELSE quantScale * At(gQaunt2_dword_42AFC4, i - 2)])]
    ELSE [g_252_buffer_unk_63580C |-> [i \in 1..64 |-> 16],
          g_252_buffer_unk_635A0C |-> [i \in 1..64 |-> 16]]

after_block_decode_no_effect_q_impl(quantScale) ==
    IF quantScale > 0
    THEN [g_252_buffer_unk_63580C |->
              Eager([i \in 1..64 |-> IF i = 1 THEN 16
                                     ELSE quantScale * At(gQuant1_dword_42AEC8, i - 2)]),
          g_252_buffer_unk_635A0C |->
              Eager([i \in 1..64 |-> IF i = 1 THEN 16
                                     ELSE quantScale * At(gQaunt2_dword_42AFC4, i - 1)])]
    ELSE [g_252_buffer_unk_63580C |-> [i \in 1..64 |-> 16],
          g_252_buffer_unk_635A0C |-> [i \in 1..64 |-> 16]]


(***************************************************************************)
(* ddv_func7_DecodeMacroBlock_impl: one block of the run-level stream into *)
(* 64 slots.  words is the decoded word stream (mDecodedVideoFrameData),   *)
(* p the 1-based position of pInput in it, out the 64 slots of the block   *)
(* (1-based), quant the dequantization array pTable points into.  The      *)
(* result is [out, next, oob]: the slots, the position returned, and       *)
(* whether an index left its array (the word stream, a 64-entry table, the *)
(* 64 slots).                                                              *)
(***************************************************************************)
InWords(words, p) == p \in DOMAIN words

\* lines 408-411: the position of the first word that is not 0xFE00
RECURSIVE SkipEndOfBlocks(_, _)
SkipEndOfBlocks(words, p) ==
    IF InWords(words, p) /\ words[p] = MDEC_END THEN SkipEndOfBlocks(words, p + 1) ELSE p

BlockDcOffset_Mutant(isYBlock) == IF isYBlock THEN 512 ELSE 0

\* line 413: v1 << 10
BlockDcOffset(isYBlock) == IF isYBlock THEN 1024 ELSE 0

HeaderSlot_Mutant(header, isYBlock) ==
    SlotOf(BlockDcOffset(isYBlock)
             + 2 * (IF header \div 1024 >= 32 THEN (header \div 1024) - 64 ELSE header \div 1024))

\* line 413: (v1 << 10) + 2 * (*pInput << 21 >> 22): bits 10..1 of the header
\* word, sign-extended from 10 bits
HeaderSlot(header, isYBlock) ==
    SlotOf(BlockDcOffset(isYBlock) + 2 * SignExtend10((header \div 2) % 1024))

\* lines 460-470: zero the slots of table entries counter .. counter + k - 1
ZeroRun(out, counter, k) ==
    Eager([i \in 1..64 |->
        IF \E c \in counter..(counter + k - 1) :
              c <= 63 /\ At(g_index_look_up_table, c) = i - 1
        THEN ZeroSlot ELSE out[i]])

\* lines 486-511: the zeroing of the slots after the last coefficient
RECURSIVE ZeroTailGroups(_, _)
ZeroTailGroups(out, counter3) ==
    IF counter3 >= 64 THEN out
    ELSE ZeroTailGroups(
            [out EXCEPT ![At(RL_ZSCAN_MATRIX_2, counter3) + 1] = ZeroSlot,
                        ![At(g_index_look_up_table, counter3) + 1] = ZeroSlot,
                        ![At(g_block_related_2_dword_42B0CC, counter3) + 1] = ZeroSlot,
                        ![At(g_block_related_3_dword_42B0D0, counter3) + 1] = ZeroSlot],
            counter3 + 4)

RECURSIVE ZeroTailSingles(_, _, _)
ZeroTailSingles(out, counter3, left) ==
    IF left = 0 \/ counter3 % 4 = 0 THEN ZeroTailGroups(out, counter3)
    ELSE ZeroTailSingles([out EXCEPT ![At(RL_ZSCAN_MATRIX_2, counter3) + 1] = ZeroSlot],
                         counter3 + 1, left - 1)

ZeroTail_Mutant(out, counter) ==
    IF counter # 0 THEN ZeroTailGroups(out, 4 * ((counter + 4) \div 4))
    ELSE Eager([i \in 1..64 |-> IF i = 1 THEN out[1] ELSE ZeroSlot])

ZeroTail(out, counter) ==
    IF counter # 0 THEN ZeroTailSingles(out, counter + 1, 3)
    ELSE Eager([i \in 1..64 |-> IF i = 1 THEN out[1] ELSE ZeroSlot])

\* lines 448-484 and 486-515: the run-skip branch.  tbase is how far pTable
\* has moved from the array's entry 1.
RECURSIVE RunSkipBranch(_, _, _, _, _, _)
RunSkipBranch(words, p, out, counter, tbase, quant) ==
    IF ~InWords(words, p) THEN [out |-> out, next |-> p, oob |-> TRUE]
    ELSE LET macroBlockWord == words[p]
             q_scale == macroBlockWord \div 1024
             level == SignExtend10(macroBlockWord % 1024)
             last == counter + q_scale
         IN  IF macroBlockWord = MDEC_END
             THEN [out |-> ZeroTail(out, counter), next |-> p + 1, oob |-> FALSE]
             ELSE IF last > 62 \/ tbase + q_scale + 1 > 63
             THEN [out |-> ZeroRun(out, counter, q_scale), next |-> p + 1, oob |-> TRUE]
             ELSE LET zeroed == ZeroRun(out, counter, q_scale)
                      idx == At(g_index_look_up_table, last)
                      outVal == [hi |-> (macroBlockWord % 1024) * 64,
                                 lo |-> Dequantize(At(quant, tbase + q_scale + 1), level)]
                      stored == [zeroed EXCEPT ![idx + 1] = outVal]
                  IN  IF last + 1 >= 63
                      THEN [out |-> stored, next |-> p + 1, oob |-> FALSE]
                      ELSE CHOOSE r \in {RunSkipBranch(words, p + 1, s, last + 1,
                                                       tbase + q_scale + 1, quant) :
                                             s \in {stored}} : TRUE

\* lines 418-442: the incremental branch
RECURSIVE IncrementalBranch(_, _, _, _, _, _)
IncrementalBranch(words, p, out, counter, tbase, quant) ==
    IF ~InWords(words, p) THEN [out |-> out, next |-> p, oob |-> TRUE]
    ELSE LET macroBlockWord == words[p]
             q_scale == macroBlockWord \div 1024
             at == counter + q_scale
         IN  IF macroBlockWord = MDEC_END
             THEN [out |-> out, next |-> p + 1, oob |-> FALSE]
             ELSE IF at > 62 \/ tbase + q_scale + 1 > 63
             THEN [out |-> out, next |-> p + 1, oob |-> TRUE]
             ELSE LET lookedUpIndex == At(g_index_look_up_table, at)
                      \* v24 = pOutput[lookedUpIndex] + (macroBlockWord << 22)
                      hi == (out[lookedUpIndex + 1].hi + (macroBlockWord % 1024) * 64) % 65536
                      level == SignExtend10(hi \div 64)
                      v25 == [hi |-> hi,
                              lo |-> Dequantize(At(quant, tbase + q_scale + 1), level)]
                      stored == [out EXCEPT ![lookedUpIndex + 1] = v25]
                  IN  IF at + 1 < 63
                      THEN CHOOSE r \in {IncrementalBranch(words, p + 1, s, at + 1,
                                                           tbase + q_scale + 1, quant) :
                                             s \in {stored}} : TRUE
                      ELSE [out |-> stored, next |-> p + 1, oob |-> FALSE]

ddv_func7_DecodeMacroBlock_impl(words, inPos, out, isYBlock, quant) ==
    LET p == SkipEndOfBlocks(words, inPos)
    IN  IF ~InWords(words, p) THEN [out |-> out, next |-> p, oob |-> TRUE]
        ELSE LET header == words[p]
                 out0 == [out EXCEPT ![1] = HeaderSlot(header, isYBlock)]
             IN  IF header % 2 = 1
                 THEN IncrementalBranch(words, p + 1, out0, 0, 0, quant)
                 ELSE RunSkipBranch(words, p + 1, out0, 0, 0, quant)


(***************************************************************************)
(* half_idct and idct.  Blocks are 64-entry sequences; entry i of the      *)
(* source (counted from 0) is src[i + 1].                                  *)
(***************************************************************************)
ShiftRight_Mutant(x, n) == IF x < 0 THEN -((-x) \div Pow2(n)) ELSE x \div Pow2(n)

\* x >> n for a signed x: the arithmetic shift
ShiftRight(x, n) == x \div Pow2(n)

\* lines 542-559: the eight outputs of one line, which starts at sourceIdx
HalfIdctLine(pSource, sourceIdx, nPitch, nShift) ==
    LET s(k) == pSource[k * nPitch + sourceIdx + 1]
        t4 == s(0) * 8192 + s(2) * 10703 + s(4) * 8192 + s(6) * 4433
        t5 == s(0) * 8192 + s(2) * 4433 - s(4) * 8192 - s(6) * 10704
        t6 == s(0) * 8192 - s(2) * 4433 - s(4) * 8192 + s(6) * 10704
        t7 == s(0) * 8192 - s(2) * 10703 + s(4) * 8192 - s(6) * 4433
        t0 == s(1) * 11363 + s(3) * 9633 + s(5) * 6437 + s(7) * 2260
        t1 == s(1) * 9633 - s(3) * 2259 - s(5) * 11362 - s(7) * 6436
        t2 == s(1) * 6437 - s(3) * 11362 + s(5) * 2261 + s(7) * 9633
        t3 == s(1) * 2260 - s(3) * 6436 + s(5) * 9633 - s(7) * 11363
    IN  <<ShiftRight(t4 + t0, nShift), ShiftRight(t5 + t1, nShift),
          ShiftRight(t6 + t2, nShift), ShiftRight(t7 + t3, nShift),
          ShiftRight(t7 - t3, nShift), ShiftRight(t6 - t2, nShift),
          ShiftRight(t5 - t1, nShift), ShiftRight(t4 - t0, nShift)>>

\* lines 533-564: line i starts at i * nIncrement and writes entries
\* k * nPitch + i * nIncrement, k = 0..7
half_idct(pSource, nPitch, nIncrement, nShift) ==
    LET lines == Eager([i \in 1..8 |->
                     HalfIdctLine(pSource, (i - 1) * nIncrement, nPitch, nShift)])
    IN  Eager([j \in 1..64 |->
            lines[(((j - 1) \div nIncrement) % 8) + 1][(((j - 1) \div nPitch) % 8) + 1]])

idct_Mutant(slots) ==
    LET pExtendedSource == Eager([i \in 1..64 |->
                               SignExtend16(slots[i].lo) + ((slots[i].hi \div 64) % 4)])
        pTemp == half_idct(pExtendedSource, 8, 1, 11)
    IN  half_idct(pTemp, 1, 8, 18)

\* lines 567-581: the low halves of the slots, sign-extended, through both passes
idct(slots) ==
    LET pExtendedSource == Eager([i \in 1..64 |-> SignExtend16(slots[i].lo)])
        pTemp == half_idct(pExtendedSource, 8, 1, 11)
    IN  half_idct(pTemp, 1, 8, 18)

(***************************************************************************)
(* ConvertYuvToRgbAndBlit.  Channel values are kept times 10000, so that   *)
(* the four coefficients 1.402, 0.3437, 0.7143 and 1.772 are integers; the *)
(* rounding of the float operations is not modelled.                       *)
(***************************************************************************)
To1d(x, y) == y * 8 + x

Clamp_Mutant(v) == IF v < 0 THEN 0 ELSE (v \div 10000) % 256

\* lines 589-594: v is the channel value times 10000; the result is the
\* unsigned char the cast leaves
Clamp(v) == IF v < 0 THEN 0 ELSE IF v > 2550000 THEN 255 ELSE v \div 10000

TileY_Mutant(b, x, y) ==
    IF x < 8 /\ y < 8 THEN b.Y1_block[To1d(x, y) + 1]
    ELSE IF x >= 8 /\ y < 8 THEN b.Y3_block[To1d(x - 8, y) + 1]
    ELSE IF x < 8 THEN b.Y2_block[To1d(x, y - 8) + 1]
    ELSE b.Y4_block[To1d(x - 8, y - 8) + 1]

\* lines 613-632: the (Y, Cb, Cr) of pixel (x, y) of the 16x16 tile
TileY(b, x, y) ==
    IF x < 8 /\ y < 8 THEN b.Y1_block[To1d(x, y) + 1]
    ELSE IF x >= 8 /\ y < 8 THEN b.Y2_block[To1d(x - 8, y) + 1]
    ELSE IF x < 8 THEN b.Y3_block[To1d(x, y - 8) + 1]
    ELSE b.Y4_block[To1d(x - 8, y - 8) + 1]
TileCb(b, x, y) == b.Cb_block[To1d(x \div 2, y \div 2) + 1]
TileCr(b, x, y) == b.Cr_block[To1d(x \div 2, y \div 2) + 1]

\* lines 649-655: the three channels of pixel (x, y), times 10000
ChannelR(b, x, y) == 10000 * TileY(b, x, y) + 14020 * TileCb(b, x, y)
ChannelG(b, x, y) == 10000 * TileY(b, x, y) - 3437 * TileCr(b, x, y) - 7143 * TileCb(b, x, y)
ChannelB(b, x, y) == 10000 * TileY(b, x, y) + 17720 * TileCr(b, x, y)

\* lines 662-665
PackPixel(red, green, blue) == ((0 * 256 + blue) * 256 + green) * 256 + red

PixelOf(b, x, y) ==
    PackPixel(Clamp(ChannelR(b, x, y)), Clamp(ChannelG(b, x, y)), Clamp(ChannelB(b, x, y)))

InFrame_Mutant(xpos, ypos, width, height) == xpos <= width /\ ypos <= height

\* line 660
InFrame(xpos, ypos, width, height) == xpos < width /\ ypos < height

\* lines 645-672: the pixels one call writes, as the set of <<xpos, ypos>>
BlitCoords(xoff, yoff, width, height) ==
    {<<x + xoff, y + yoff>> : x \in 0..(kMacroBlockWidth - 1), y \in 0..(kMacroBlockHeight - 1)}
        \cap {c \in (xoff..(xoff + 15)) \X (yoff..(yoff + 15)) : InFrame(c[1], c[2], width, height)}

\* line 598: the index SetElement writes
SetElementIndex(x, y, width) == width * y + x


(***************************************************************************)
(* Masher::ParseVideoFrame as a state machine: one step for the entry      *)
(* (the early return, decode_bitstream, the dequantization setup) and one  *)
(* step per macroblock.  decode_bitstream is the subject of SpecVlc; here  *)
(* its result, the decoded word stream and the returned scale, is an       *)
(* input.                                                                  *)
(***************************************************************************)
BlockNames == <<"Cr_block", "Cb_block", "Y1_block", "Y2_block", "Y3_block", "Y4_block">>

RECURSIVE DecodeBlocks_Mutant(_, _, _, _, _)
DecodeBlocks_Mutant(words, pos, stale, quant, k) ==
    IF k > kNumberOfBlocks THEN [next |-> pos, slots |-> <<>>, oob |-> FALSE]
    ELSE LET isYBlock == k <= 4
             r == ddv_func7_DecodeMacroBlock_impl(words, pos, stale, isYBlock,
                     IF isYBlock THEN quant.g_252_buffer_unk_63580C
                     ELSE quant.g_252_buffer_unk_635A0C)
             rest == DecodeBlocks_Mutant(words, r.next, stale, quant, k + 1)
         IN  [next |-> rest.next, slots |-> <<r.out>> \o rest.slots,
              oob |-> r.oob \/ rest.oob]

\* the six blocks of one macroblock, lines 729-750: block k reads where block
\* k - 1 stopped; the first two use the chroma array, the others the luma array
RECURSIVE DecodeBlocks(_, _, _, _, _)
DecodeBlocks(words, pos, stale, quant, k) ==
    IF k > kNumberOfBlocks THEN [next |-> pos, slots |-> <<>>, oob |-> FALSE]
    ELSE LET isYBlock == k > 2
             r == ddv_func7_DecodeMacroBlock_impl(words, pos, stale, isYBlock,
                     IF isYBlock THEN quant.g_252_buffer_unk_63580C
                     ELSE quant.g_252_buffer_unk_635A0C)
             rest == DecodeBlocks(words, r.next, stale, quant, k + 1)
         IN  [next |-> rest.next, slots |-> <<r.out>> \o rest.slots,
              oob |-> r.oob \/ rest.oob]

NoBlocks == [n \in {BlockNames[k] : k \in 1..6} |-> [i \in 1..64 |-> 0]]

NewVideo(width, height, words, quantScale, stale) ==
    [pc |-> "start",
     mWidth |-> width,
     mHeight |-> height,
     mNumMacroblocksX |-> NumMacroblocks(width, kMacroBlockWidth),
     mNumMacroblocksY |-> NumMacroblocks(height, kMacroBlockHeight),
     words |-> words,                \* what decode_bitstream leaves in mDecodedVideoFrameData
     quantScale |-> quantScale,      \* what decode_bitstream returns
     stale |-> stale,                \* what every slot of mMacroBlockBuffer holds before the call
     quant |-> [g_252_buffer_unk_63580C |-> [i \in 1..64 |-> 0],
                g_252_buffer_unk_635A0C |-> [i \in 1..64 |-> 0]],
     bitstreamCurPos |-> 1,
     xBlock |-> 0,
     yBlock |-> 0,
     blocks |-> NoBlocks,            \* Cr_block .. Y4_block
     slots |-> <<>>,                 \* the six 64-slot outputs of the last macroblock
     pixelBuffer |-> <<>>,           \* index -> value, for the indices written
     writeCount |-> <<>>,            \* <<x, y>> -> number of writes, for the pixels written
     macroblocks |-> 0,              \* macroblocks decoded
     blockCount |-> 0,               \* blocks decoded
     oob |-> FALSE]

\* lines 708-715: the early return, else the dequantization arrays of the
\* scale decode_bitstream returned
ParseVideoFrame_Entry(v) ==
    IF v.mNumMacroblocksX <= 0 \/ v.mNumMacroblocksY <= 0
    THEN [v EXCEPT !.pc = "done"]
    ELSE [v EXCEPT !.pc = "loop",
                   !.quant = after_block_decode_no_effect_q_impl(v.quantScale)]

\* lines 706-721
ParseVideoFrame_Begin ==
    /\ video.pc = "start"
    /\ video.mNumMacroblocksX * video.mNumMacroblocksY <= MaxMacroblocks
    /\ video' = ParseVideoFrame_Entry(video)
    /\ UNCHANGED <<containerVars, vlc, audio, sound>>

\* lines 753 and 645-672: the buffer and the write counts after the blit of
\* the blocks b at (xoff, yoff)
Blit(v, b, xoff, yoff) ==
    LET coords == BlitCoords(xoff, yoff, v.mWidth, v.mHeight)
        written == {SetElementIndex(c[1], c[2], v.mWidth) : c \in coords}
    IN  [pixelBuffer |->
             [i \in DOMAIN v.pixelBuffer \cup written |->
                 LET direct == <<i % v.mWidth, i \div v.mWidth>>
                 IN  IF direct \in coords
                     THEN PixelOf(b, direct[1] - xoff, direct[2] - yoff)
                     ELSE IF i \in written
                     THEN LET c == CHOOSE c \in coords :
                                       SetElementIndex(c[1], c[2], v.mWidth) = i
                          IN  PixelOf(b, c[1] - xoff, c[2] - yoff)
                     ELSE v.pixelBuffer[i]],
         writeCount |->
             [c \in DOMAIN v.writeCount \cup coords |->
                 (IF c \in DOMAIN v.writeCount THEN v.writeCount[c] ELSE 0)
                     + (IF c \in coords THEN 1 ELSE 0)]]

\* lines 729-750: the six blocks of the macroblock at v.bitstreamCurPos,
\* dequantized with the arrays quant, and their idct into Cr_block .. Y4_block
MacroblockBlocks(v, quant) ==
    CHOOSE r \in {[d |-> d,
                   blocks |-> [Cr_block |-> idct(d.slots[1]), Cb_block |-> idct(d.slots[2]),
                               Y1_block |-> idct(d.slots[3]), Y2_block |-> idct(d.slots[4]),
                               Y3_block |-> idct(d.slots[5]), Y4_block |-> idct(d.slots[6])]] :
                      d \in {DecodeBlocks(v.words, v.bitstreamCurPos,
                                          Eager([i \in 1..64 |-> v.stale]), quant, 1)}} : TRUE

\* lines 753-758: the blit of the blocks b, and the loop counters
MacroblockBlit(v, d, b) ==
    CHOOSE r \in {[v EXCEPT
                     !.bitstreamCurPos = d.next,
                     !.slots = d.slots,
                     !.blocks = b,
                     !.oob = @ \/ d.oob,
                     !.macroblocks = @ + 1,
                     !.blockCount = @ + kNumberOfBlocks,
                     !.writeCount = w.writeCount,
                     !.pixelBuffer = w.pixelBuffer,
                     !.yBlock = IF v.yBlock + 1 >= v.mNumMacroblocksY THEN 0 ELSE @ + 1,
                     !.xBlock = IF v.yBlock + 1 >= v.mNumMacroblocksY THEN @ + 1 ELSE @,
                     !.pc = IF /\ v.yBlock + 1 >= v.mNumMacroblocksY
                               /\ v.xBlock + 1 >= v.mNumMacroblocksX
                            THEN "done" ELSE "loop"] :
                      w \in {Blit(v, b, v.xBlock * kMacroBlockWidth,
                                  v.yBlock * kMacroBlockHeight)}} : TRUE

\* lines 722-758: one pass of the inner loop body, and the loop counters
ParseVideoFrame_Macroblock ==
    /\ video.pc = "loop"
    /\ \E r \in {MacroblockBlocks(video, video.quant)} :
          video' = MacroblockBlit(video, r.d, r.blocks)
    /\ UNCHANGED <<containerVars, vlc, audio, sound>>

(***************************************************************************)
(* The frames of the video model.  A frame is the word stream              *)
(* decode_bitstream leaves: per block a header word, run-level words and   *)
(* the end-of-block word 0xFE00.                                           *)
(***************************************************************************)
RunLevel(run, level) == run * 1024 + (level % 1024)

\* the words of block b (counted from 0) of a frame of the given kind
BlockWords(kind, b) ==
    CASE kind = "gray" -> <<0, MDEC_END>>
      [] kind = "grayHigh" -> <<IF b % 2 = 0 THEN 2048 ELSE 63488, MDEC_END>>
      [] kind = "dc" -> <<2 * ((37 * b + 5) % 1024), MDEC_END>>
      [] kind = "ac" -> <<2 * ((11 * b) % 1024), RunLevel(0, 3 + b), RunLevel(2, -(b + 1)),
                          RunLevel(b % 5, 7), MDEC_END>>
      [] kind = "full" -> <<0>> \o [i \in 1..9 |-> RunLevel(6, ((i + b) % 7) - 3)]
      [] kind = "incr" -> <<2 * ((11 * b) % 1024) + 1, RunLevel(1, 5), RunLevel(0, -5), MDEC_END>>
      [] OTHER -> <<2 * ((300 * b) % 1024), RunLevel(0, 511), RunLevel(0, -512), MDEC_END>>

FrameKinds == {"gray", "grayHigh", "dc", "ac", "full", "incr", "sat"}

FrameWords(kind, width, height) ==
    LET n == NumMacroblocks(width, kMacroBlockWidth) * NumMacroblocks(height, kMacroBlockHeight)
                 * kNumberOfBlocks
    IN  IF n > MaxMacroblocks * kNumberOfBlocks THEN <<>>
        ELSE Flatten([b \in 1..n |-> BlockWords(kind, b - 1)])

StaleSlots == {ZeroSlot, [hi |-> 65472, lo |-> 100]}
SmallSizes == {0, 1, 16, 17, 33, 64}
BigDims == {<<300, 200>>, <<320, 240>>, <<65535, 65521>>, <<4097, 65520>>}

VideoInputs ==
    \* every small picture size, as a gray frame
    { [width |-> w, height |-> h, kind |-> "gray", quantScale |-> 0, stale |-> ZeroSlot] :
        w \in SmallSizes, h \in SmallSizes }
    \* pictures too large to decode here: only their macroblock counts are looked at
    \cup { [width |-> d[1], height |-> d[2], kind |-> "gray", quantScale |-> 0,
            stale |-> ZeroSlot] : d \in BigDims }
    \* every kind of frame, scale and previous buffer content on three sizes
    \cup { [width |-> d[1], height |-> d[2], kind |-> k, quantScale |-> q, stale |-> s] :
             d \in {<<16, 16>>, <<17, 20>>, <<40, 9>>}, k \in FrameKinds,
             q \in {0, 1, 2}, s \in StaleSlots }

InitVideo ==
    /\ \E i \in VideoInputs :
         video = NewVideo(i.width, i.height, FrameWords(i.kind, i.width, i.height),
                          i.quantScale, i.stale)
    /\ stream = <<>>
    /\ masher = NewMasher
    /\ phase = "new"
    /\ thrown = NoException
    /\ updateCalls = <<>>
    /\ vlc = IdleVlc
    /\ sound = IdleSound
    /\ audio = IdleAudio

NextVideo == ParseVideoFrame_Begin \/ ParseVideoFrame_Macroblock

SpecVideo == InitVideo /\ [][NextVideo]_vars

(***************************************************************************)
(* Claims about ParseVideoFrame, checked under SpecVideo.                  *)
(***************************************************************************)
VideoRunning == video.pc \in {"loop", "done"}

\* the offsets of the macroblock decoded last: x is the outer loop
LastXoff == ((video.macroblocks - 1) \div video.mNumMacroblocksY) * kMacroBlockWidth
LastYoff == ((video.macroblocks - 1) % video.mNumMacroblocksY) * kMacroBlockHeight

\* C3: one ParseVideoFrame call never writes a pixel with x >= width or
\* y >= height (nor an index outside the width * height buffer), never writes
\* a pixel twice, and when it returns it has written every pixel (x, y) with
\* x < width and y < height exactly once.
C3_PixelsInFrameOnce ==
    VideoRunning =>
        /\ \A c \in DOMAIN video.writeCount :
               /\ c[1] < video.mWidth
               /\ c[2] < video.mHeight
               /\ video.writeCount[c] = 1
        /\ \A i \in DOMAIN video.pixelBuffer : i \in 0..(video.mWidth * video.mHeight - 1)
        /\ video.pc = "done" =>
               DOMAIN video.writeCount =
                   {<<x, y>> : x \in 0..(video.mWidth - 1), y \in 0..(video.mHeight - 1)}

\* a finished frame whose size is no multiple of 16, of several macroblocks
C3_Witness ==
    /\ video.pc = "done"
    /\ video.mWidth % 16 # 0
    /\ video.mHeight % 16 # 0
    /\ video.macroblocks > 1
    /\ Cardinality(DOMAIN video.writeCount) = video.mWidth * video.mHeight

\* the channel value v (times 10000) cut to an integer of 0..255
Saturated(v) ==
    LET floor == v \div 10000
        low == IF floor < 0 THEN 0 ELSE floor
    IN  IF low > 255 THEN 255 ELSE low

\* C4: every pixel value in the buffer is below 2^24 (bits 24..31 zero), and
\* the pixels of the macroblock blitted last hold in bits 0..7, 8..15 and
\* 16..23 the red, green and blue channel values saturated to 0..255.
C4_PixelFormat ==
    VideoRunning =>
        /\ \A i \in DOMAIN video.pixelBuffer : video.pixelBuffer[i] \in 0..(Pow2(24) - 1)
        /\ video.macroblocks > 0 =>
             \A x \in 0..(kMacroBlockWidth - 1), y \in 0..(kMacroBlockHeight - 1) :
                (x + LastXoff < video.mWidth /\ y + LastYoff < video.mHeight) =>
                    LET pixelValue == video.pixelBuffer[
                            video.mWidth * (y + LastYoff) + x + LastXoff]
                    IN  /\ pixelValue % 256 = Saturated(ChannelR(video.blocks, x, y))
                        /\ (pixelValue \div 256) % 256 = Saturated(ChannelG(video.blocks, x, y))
                        /\ (pixelValue \div 65536) % 256 = Saturated(ChannelB(video.blocks, x, y))

\* a macroblock with a channel above 255 and a channel below 0 has been blitted
C4_Witness ==
    /\ VideoRunning
    /\ video.macroblocks > 0
    /\ \E x \in 0..15, y \in 0..15 :
          /\ x + LastXoff < video.mWidth /\ y + LastYoff < video.mHeight
          /\ ChannelR(video.blocks, x, y) > 2560000
    /\ \E x \in 0..15, y \in 0..15 :
          /\ x + LastXoff < video.mWidth /\ y + LastYoff < video.mHeight
          /\ ChannelB(video.blocks, x, y) < 0

\* every block of the frame is a header word with DC 0 and flag bit 0
\* followed directly by 0xFE00
IsDcZeroFrame ==
    /\ Len(video.words) = 2 * kNumberOfBlocks * video.mNumMacroblocksX * video.mNumMacroblocksY
    /\ \A k \in DOMAIN video.words :
          IF k % 2 = 1
          THEN video.words[k] % 2048 = 0 /\ video.words[k] # MDEC_END
          ELSE video.words[k] = MDEC_END

\* C9: in a frame whose every block is a header word with DC 0 and flag bit 0
\* followed directly by 0xFE00, every coefficient block has its 63 AC slots
\* zero, every luma sample is 128, every chroma sample is 0, and every pixel
\* written is 0x00808080.
C9_DcZeroFrameIsGray ==
    (VideoRunning /\ IsDcZeroFrame /\ video.macroblocks > 0) =>
        /\ \A k \in 1..kNumberOfBlocks : \A i \in 2..64 : video.slots[k][i] = ZeroSlot
        /\ \A i \in 1..64 :
              /\ video.blocks.Y1_block[i] = 128
              /\ video.blocks.Y2_block[i] = 128
              /\ video.blocks.Y3_block[i] = 128
              /\ video.blocks.Y4_block[i] = 128
              /\ video.blocks.Cb_block[i] = 0
              /\ video.blocks.Cr_block[i] = 0
        /\ \A i \in DOMAIN video.pixelBuffer : video.pixelBuffer[i] = 8421504

\* such a frame, decoded to its end over a buffer that held other values
C9_Witness ==
    /\ video.pc = "done"
    /\ IsDcZeroFrame
    /\ video.macroblocks > 1
    /\ video.stale # ZeroSlot
    /\ video.quantScale > 0
    /\ \E k \in DOMAIN video.words : video.words[k] \notin {0, MDEC_END}
    /\ Cardinality(DOMAIN video.pixelBuffer) = video.mWidth * video.mHeight

\* ceil(a / b) for b > 0
CeilDiv(a, b) == -((-a) \div b)

\* C10: the macroblock counts are ceil(width / 16) and ceil(height / 16)
\* (300 x 200 gives 19 * 13 = 247); a ParseVideoFrame call that has returned
\* has decoded macroblocksX * macroblocksY macroblocks of six blocks each,
\* having read the six blocks of each from the word stream, and when either
\* count is 0 it has decoded nothing and written no pixel.
C10_MacroblockCounts ==
    video.pc # "idle" =>
        /\ video.mNumMacroblocksX = CeilDiv(video.mWidth, 16)
        /\ video.mNumMacroblocksY = CeilDiv(video.mHeight, 16)
        /\ (video.mWidth = 300 /\ video.mHeight = 200) =>
               video.mNumMacroblocksX * video.mNumMacroblocksY = 247
        /\ video.blockCount = 6 * video.macroblocks
        /\ video.macroblocks > 0 => Len(video.slots) = 6
        /\ video.pc = "done" =>
               /\ video.macroblocks = video.mNumMacroblocksX * video.mNumMacroblocksY
               /\ video.bitstreamCurPos = Len(video.words) + 1
               /\ ~video.oob
               /\ (video.mNumMacroblocksX = 0 \/ video.mNumMacroblocksY = 0) =>
                      /\ video.macroblocks = 0
                      /\ DOMAIN video.pixelBuffer = {}

\* a finished frame of 2 x 2 macroblocks whose size is no multiple of 16
C10_Witness ==
    /\ video.pc = "done"
    /\ video.mWidth = 17
    /\ video.mNumMacroblocksX = 2
    /\ video.mNumMacroblocksY = 2
    /\ video.macroblocks = 4
    /\ video.blockCount = 24

(***************************************************************************)
(* decode_bitstream.  A u32 (workBits, rawWord4) is kept as its two 16-bit *)
(* halves [hi, lo].  The frame payload pFrameData is a sequence of 16-bit  *)
(* words; rawBitStreamPtr counts words from its start.  A read at or past  *)
(* the end of the payload has no defined value: it yields any word of      *)
(* OverReadWords and is counted in overreads.                              *)
(***************************************************************************)

Or16(a, b) ==
    SeqSum(Eager([i \in 1..16 |->
        IF Bit(a, i - 1) + Bit(b, i - 1) > 0 THEN Pow2(i - 1) ELSE 0]))

Or32(a, b) == [hi |-> Or16(a.hi, b.hi), lo |-> Or16(a.lo, b.lo)]

\* value << n in 32 bits, 0 <= n <= 31
ShiftLeft32(value, n) ==
    IF n = 0 THEN value
    ELSE IF n < 16
    THEN [hi |-> ((value.hi * Pow2(n)) % 65536) + (value.lo \div Pow2(16 - n)),
          lo |-> (value.lo * Pow2(n)) % 65536]
    ELSE [hi |-> (value.lo * Pow2(n - 16)) % 65536, lo |-> 0]

\* lines 112-116
SetLoWord(v, lo) == [v EXCEPT !.lo = lo]

\* lines 125-128: value >> (32 - numBits), for the widths 11, 13 and 17 in use
ExtractBits(value, numBits) ==
    IF numBits <= 16 THEN value.hi \div Pow2(16 - numBits)
    ELSE (value.hi * Pow2(numBits - 16)) + (value.lo \div Pow2(32 - numBits))

\* lines 130-134; bitpos counts the bits of the stream consumed so far
SkipBits(s, numBits) ==
    [s EXCEPT !.workBits = ShiftLeft32(@, numBits),
              !.usedBitCount = @ + numBits,
              !.bitpos = @ + numBits]

\* *rawBitStreamPtr
RawWord(s, junk) ==
    IF s.rawBitStreamPtr < Len(s.pFrameData) THEN s.pFrameData[s.rawBitStreamPtr + 1]
    ELSE junk

\* rawBitStreamPtr++ after a read
Advance(s) ==
    [s EXCEPT !.rawBitStreamPtr = @ + 1,
              !.overreads = @ + (IF s.rawBitStreamPtr < Len(s.pFrameData) THEN 0 ELSE 1)]

GetBits_Mutant(s, junk) ==
    IF (s.usedBitCount \div 32) % 2 = 1
    THEN LET used == s.usedBitCount % 16
             raw == ShiftLeft32([hi |-> 0, lo |-> RawWord(s, junk)], used)
         IN  [Advance(s) EXCEPT !.usedBitCount = used,
                                !.rawWord4 = raw,
                                !.workBits = Or32(s.workBits, raw)]
    ELSE s

\* lines 136-145
GetBits(s, junk) ==
    IF (s.usedBitCount \div 16) % 2 = 1
    THEN LET used == s.usedBitCount % 16
             raw == ShiftLeft32([hi |-> 0, lo |-> RawWord(s, junk)], used)
         IN  [Advance(s) EXCEPT !.usedBitCount = used,
                                !.rawWord4 = raw,
                                !.workBits = Or32(s.workBits, raw)]
    ELSE s

\* *pOutput++ = word
Output(s, word) == [s EXCEPT !.pOutput = Append(@, word)]

\* lines 147-153
OutputWordAndAdvance(s, junk) ==
    LET raw == ShiftLeft32([hi |-> 0, lo |-> RawWord(s, junk)], s.usedBitCount)
    IN  [Advance(Output(s, s.workBits.hi)) EXCEPT
            !.rawWord4 = raw,
            !.workBits = Or32(raw, ShiftLeft32(s.workBits, 16)),
            !.bitpos = @ + 16]

\* one entry of the decoder's history: what it did (kind), with which Tbl2
\* entry and output field, from which bit of the stream (at) over how many
\* bits (n), and the output length and read position it left
Log(s, kind, field, at) ==
    [s EXCEPT !.trace = Append(@, [kind |-> kind,
                                   index |-> s.table_index_2,
                                   field |-> field,
                                   at |-> at,
                                   n |-> s.bitpos - at,
                                   out |-> Len(s.pOutput),
                                   ptr |-> s.rawBitStreamPtr])]

(***************************************************************************)
(* gTbl1 and gTbl2 are defined in masher_tables.hpp, which is not among    *)
(* the sources.  They are modelled by their layout (mBitsToShift and one   *)
(* or three output words per entry) with a content chosen so that every    *)
(* path of decode_bitstream is taken: an entry of gTbl2 is selected by the *)
(* top three bits of its index.                                            *)
(***************************************************************************)
gTbl1(table_index_1) ==
    [mBitsToShift |-> 2, mOutputWord |-> 1280 + (table_index_1 \div 128)]

Tbl2Entry(bits, w1, w2, w3) ==
    [mBitsToShift |-> bits, mOutputWord1 |-> w1, mOutputWord2 |-> w2, mOutputWord3 |-> w3]

gTbl2(table_index_2) ==
    LET k == table_index_2 \div 1024
    IN  CASE k = 0 -> Tbl2Entry(3, 1025, 0, 0)
          [] k = 1 -> Tbl2Entry(3, MDEC_END, 0, 0)
          [] k = 2 -> Tbl2Entry(4, 2050, MDEC_END, 0)
          [] k = 3 -> Tbl2Entry(5, 1027, 1028, MDEC_END)
          [] k = 4 -> Tbl2Entry(3, EscapeWord, 1029, 1030)
          [] k = 5 -> Tbl2Entry(3, 1031, EscapeWord, 1032)
          [] k = 6 -> Tbl2Entry(3, 1033, 1034, EscapeWord)
          [] OTHER -> Tbl2Entry(6, 1035, 1036, 1037)

\* gTbl2[table_index_2].mOutputWord<field>
OutputWordOf(table_index_2, field) ==
    CASE field = 1 -> gTbl2(table_index_2).mOutputWord1
      [] field = 2 -> gTbl2(table_index_2).mOutputWord2
      [] OTHER -> gTbl2(table_index_2).mOutputWord3

IsEndOfFrame_Mutant(v) == v = 2047

\* lines 243, 274 and 304
IsEndOfFrame(v) == v = MASK_10_BITS

EscapeResume_Mutant(field) ==
    IF field < 3 THEN [pc |-> "emit", field |-> field + 1] ELSE [pc |-> "lookup", field |-> 0]

\* lines 234, 265 and 296: where control goes after OutputWordAndAdvance,
\* the end of a while (1) body whose next pass starts at line 196
EscapeResume(field) == [pc |-> "lookup", field |-> 0]

\* lines 163-180
decode_bitstream_entry(pFrameData, junk) ==
    LET word(i) == IF i < Len(pFrameData) THEN pFrameData[i + 1] ELSE junk
        missing == IF Len(pFrameData) >= 3 THEN 0 ELSE 3 - Len(pFrameData)
        s0 == [pc |-> "lookup",
               pFrameData |-> pFrameData,
               ret |-> word(0),
               table_index_2 |-> 0,
               field |-> 0,
               workBits |-> [hi |-> word(1), lo |-> word(2)],
               rawWord4 |-> [hi |-> 0, lo |-> word(1) \div 32],
               usedBitCount |-> 0,
               rawBitStreamPtr |-> 3,
               pOutput |-> <<>>,
               overreads |-> missing,
               bitpos |-> 0,
               returned |-> FALSE,
               trace |-> <<>>]
    IN  Log(Output(SkipBits(s0, 11), ExtractBits(s0.workBits, 11)), "first", 0, 0)

\* lines 198-219: the Tbl1 path of one pass
Tbl1Path(s, junk) ==
    LET table_index_1 == ExtractBits(s.workBits, 17)
        s1 == GetBits(SkipBits(s, 8), junk)
        s2 == GetBits(SkipBits(s1, gTbl1(table_index_1).mBitsToShift), junk)
    IN  Log(Output(s2, gTbl1(table_index_1).mOutputWord), "tbl1", 0, s.bitpos)

\* lines 228-234, 259-265 and 290-296: rawWord4 holds output field `field`;
\* a zero in field 2 or 3 ends the entry, the escape word emits the top of
\* the work register, anything else is left for the emit step
TakeField(s, field, junk) ==
    LET lo == s.rawWord4.lo
    IN  IF field > 1 /\ lo = 0 THEN [s EXCEPT !.pc = "lookup", !.field = 0]
        ELSE IF lo = EscapeWord
        THEN LET e == Log(OutputWordAndAdvance(s, junk), "escape", field, s.bitpos)
             IN  [e EXCEPT !.pc = EscapeResume(field).pc, !.field = EscapeResume(field).field]
        ELSE [s EXCEPT !.pc = "emit", !.field = field]

\* lines 222-234: the Tbl2 path of one pass, up to the test of field 1
Tbl2Path(s, junk) ==
    LET s1 == GetBits(SkipBits(s, gTbl2(s.table_index_2).mBitsToShift), junk)
        s2 == Log([s1 EXCEPT !.rawWord4 = SetLoWord(@, OutputWordOf(s.table_index_2, 1))],
                  "lookup", 0, s.bitpos)
    IN  TakeField(s2, 1, junk)

\* lines 238-253, 269-283 and 301-313: the 11 bits after an end-of-block word
AfterEndOfBlock(s, junk) ==
    LET v == ExtractBits(s.workBits, 11)
        s1 == SkipBits(s, 11)
    IN  IF IsEndOfFrame(v)
        THEN Log([s1 EXCEPT !.pc = "done", !.returned = TRUE], "return", 0, s.bitpos)
        ELSE LET s2 == Output([s1 EXCEPT !.rawWord4 = [hi |-> 0, lo |-> v]], v)
             IN  Log(GetBits(s2, junk), "header", 0, s.bitpos)

\* lines 236-256, 267-286 and 297-313: output field `field` is emitted and the
\* next field of the entry, if any, is taken
EmitField(s, junk) ==
    LET word == s.rawWord4.lo
        s1 == Log(Output(s, word), "field", s.field, s.bitpos)
        s2 == IF word = MDEC_END THEN AfterEndOfBlock(s1, junk) ELSE s1
    IN  IF s2.returned THEN s2
        ELSE IF s.field = 3 THEN [s2 EXCEPT !.pc = "lookup", !.field = 0]
        ELSE TakeField([s2 EXCEPT !.rawWord4 =
                             SetLoWord(@, OutputWordOf(s.table_index_2, s.field + 1))],
                       s.field + 1, junk)

OverReadWords == {0, 65535, 12284}

UsesTbl2_Mutant(table_index_2) == table_index_2 < 32

\* line 197: the test that leaves the Tbl1 loop for the Tbl2 lookup
UsesTbl2(table_index_2) == table_index_2 >= 32

decode_bitstream_Begin ==
    /\ vlc.pc = "start"
    /\ \E junk \in OverReadWords :
          \E s \in {decode_bitstream_entry(vlc.pFrameData, junk)} :
              vlc' = [f \in DOMAIN s \cup {"ended"} |->
                         IF f = "ended" THEN vlc.ended ELSE s[f]]
    /\ UNCHANGED <<containerVars, video, audio, sound>>

\* lines 196-234: one pass of the innermost loops
decode_bitstream_Lookup ==
    /\ vlc.pc = "lookup"
    /\ vlc.overreads < MaxOverReads
    /\ \E junk \in OverReadWords :
          \E s \in {[vlc EXCEPT !.table_index_2 = ExtractBits(vlc.workBits, 13)]} :
              vlc' = IF UsesTbl2(s.table_index_2) THEN Tbl2Path(s, junk)
                     ELSE Tbl1Path(s, junk)
    /\ UNCHANGED <<containerVars, video, audio, sound>>

\* lines 236-313: the emission of one output field of the Tbl2 entry
decode_bitstream_Emit ==
    /\ vlc.pc = "emit"
    /\ vlc.overreads < MaxOverReads
    /\ \E junk \in OverReadWords : vlc' = EmitField(vlc, junk)
    /\ UNCHANGED <<containerVars, video, audio, sound>>

(***************************************************************************)
(* The frame payloads of the decode_bitstream model.  A payload is the     *)
(* word decode_bitstream returns followed by a bit stream, most            *)
(* significant bit first, written here as a sequence of codes <<value,     *)
(* width>>.                                                                *)
(***************************************************************************)
Header(v) == <<v, 11>>
Code2(k) == <<k * Pow2(gTbl2(k * 1024).mBitsToShift - 3), gTbl2(k * 1024).mBitsToShift>>
Code1(j) == <<j, 8 + gTbl1(j * 128).mBitsToShift>>
Raw(v) == <<v, 16>>
EndOfFrame == <<MASK_10_BITS, 11>>

CodeBits(code) == Eager([i \in 1..code[2] |-> Bit(code[1], code[2] - i)])

\* the bits packed into 16-bit words, the last word filled with zeros
PackWords(bits) ==
    Eager([w \in 1..((Len(bits) + 15) \div 16) |->
        SeqSum(Eager([j \in 1..16 |->
            IF 16 * (w - 1) + j <= Len(bits)
            THEN bits[16 * (w - 1) + j] * Pow2(16 - j) ELSE 0]))])

MakePayload(ret, codes, padding) ==
    <<ret>> \o PackWords(Flatten(Eager([i \in 1..Len(codes) |-> CodeBits(codes[i])])))
            \o Repeat(0, padding)

\* frames that end with the end-of-frame value after an end-of-block word
EndedFrames ==
    { <<Header(5), Code2(1), EndOfFrame>>,
      <<Header(2047), Code2(2), EndOfFrame>>,
      <<Header(7), Code2(3), EndOfFrame>>,
      <<Header(5), Code2(1), Header(7), Code2(2), Header(9), Code2(3), Header(1022),
        Code2(7), Code2(1), EndOfFrame>>,
      <<Header(1), Code2(4), Raw(43981), Code2(5), Raw(4660), Code2(6), Raw(EscapeWord),
        Code2(1), EndOfFrame>>,
      <<Header(1), Code2(4), Raw(MDEC_END), Code2(6), Raw(0), Code2(1), EndOfFrame>>,
      <<Header(3), Code1(2), Code2(7), Code1(1), Code1(3), Code2(3), EndOfFrame>>,
      <<Header(0), Code2(5), Raw(65535), Code2(2), Header(1), Code1(0), Code2(2), EndOfFrame>> }

\* frames that hold no end-of-frame value
OpenFrames ==
    { <<Header(3), Code2(7), Code2(7)>>,
      <<Header(3), Code2(1), Header(4), Code2(1), Header(6)>>,
      <<Header(3), Code2(4), Raw(1)>>,
      <<Header(3), Code1(1), Code1(2), Code2(3), Header(8)>> }

VlcInputs ==
    { [pFrameData |-> MakePayload(ret, codes, 2), ended |-> TRUE] :
          ret \in {0, 3, 65535}, codes \in EndedFrames }
    \cup { [pFrameData |-> MakePayload(3, codes, padding), ended |-> FALSE] :
               codes \in OpenFrames, padding \in {0, 1} }
    \cup { [pFrameData |-> words, ended |-> FALSE] : words \in {<<>>, <<3>>, <<3, 160>>} }

InitVlc ==
    /\ \E i \in VlcInputs : vlc = [pc |-> "start", pFrameData |-> i.pFrameData, ended |-> i.ended]
    /\ stream = <<>>
    /\ masher = NewMasher
    /\ phase = "new"
    /\ thrown = NoException
    /\ updateCalls = <<>>
    /\ video = IdleVideo
    /\ sound = IdleSound
    /\ audio = IdleAudio

NextVlc == decode_bitstream_Begin \/ decode_bitstream_Lookup \/ decode_bitstream_Emit

SpecVlc == InitVlc /\ [][NextVlc]_vars

(***************************************************************************)
(* Claims about decode_bitstream, checked under SpecVlc.                   *)
(***************************************************************************)
VlcRunning == vlc.pc \in {"lookup", "emit", "done"}

\* the n bits of the payload's bit stream that start at bit `at`, read from
\* the payload itself: bit 0 is the top bit of the second word
StreamBits(pFrameData, at, n) ==
    SeqSum(Eager([j \in 1..n |->
        Bit(pFrameData[2 + ((at + j - 1) \div 16)], 15 - ((at + j - 1) % 16)) * Pow2(n - j)]))

InPayload(pFrameData, at, n) == at + n <= 16 * (Len(pFrameData) - 1)

\* entry i of the history is the emission of 0xFE00 from a Tbl2 entry
IsTbl2EndOfBlock(i) ==
    /\ vlc.trace[i].kind = "field"
    /\ vlc.pOutput[vlc.trace[i].out] = MDEC_END

\* C6: after each 0xFE00 emitted from a field of a Tbl2 entry, the next thing
\* decode_bitstream does is consume exactly the next 11 bits of the stream;
\* if they are 0x3FF it returns the first word of the payload with 0xFE00 as
\* the last word emitted, otherwise it emits them as the next output word
\* and goes on decoding.
C6_ElevenBitsAfterEndOfBlock ==
    VlcRunning =>
        \A i \in DOMAIN vlc.trace :
            IsTbl2EndOfBlock(i) =>
                /\ i < Len(vlc.trace)
                /\ LET e == vlc.trace[i]
                       f == vlc.trace[i + 1]
                       known == InPayload(vlc.pFrameData, f.at, 11)
                       bits == StreamBits(vlc.pFrameData, f.at, 11)
                   IN  /\ f.kind \in {"return", "header"}
                       /\ f.at = e.at + e.n
                       /\ f.n = 11
                       /\ known => (f.kind = "return" <=> bits = 1023)
                       /\ f.kind = "return" =>
                              /\ i + 1 = Len(vlc.trace)
                              /\ vlc.pc = "done"
                              /\ vlc.returned
                              /\ vlc.ret = vlc.pFrameData[1]
                              /\ Len(vlc.pOutput) = e.out
                       /\ f.kind = "header" =>
                              /\ f.out = e.out + 1
                              /\ known => vlc.pOutput[f.out] = bits
                              /\ i + 1 = Len(vlc.trace) => vlc.pc \in {"lookup", "emit"}

\* a frame decoded to its end in which 0xFE00 came from field 1, field 2 and
\* field 3 of a Tbl2 entry and was followed by a block header each time
C6_Witness ==
    /\ vlc.pc = "done"
    /\ vlc.overreads = 0
    /\ \A k \in 1..3 :
          \E i \in DOMAIN vlc.trace :
              /\ IsTbl2EndOfBlock(i)
              /\ vlc.trace[i].field = k
              /\ vlc.trace[i + 1].kind = "header"
    /\ vlc.trace[Len(vlc.trace)].kind = "return"

\* C7 as stated: after the escape in output field k of a Tbl2 entry, the
\* raw word is emitted and the decoder goes on with output field k + 1 of
\* the same entry, with no table lookup in between.
C7_EscapeResumesSameEntry ==
    VlcRunning =>
        \A i \in DOMAIN vlc.trace :
            vlc.trace[i].kind = "escape" =>
                IF i < Len(vlc.trace)
                THEN /\ vlc.trace[i + 1].kind = "field"
                     /\ vlc.trace[i + 1].field = vlc.trace[i].field + 1
                     /\ vlc.trace[i + 1].index = vlc.trace[i].index
                ELSE /\ vlc.pc = "emit"
                     /\ vlc.field = vlc.trace[i].field + 1

\* C7, amended: when output field k (1, 2 or 3) of a Tbl2 entry is the escape
\* 0x7C1F, the decoder emits the next 16 bits of the stream (the top half of
\* the work register), reads one more raw word, and then performs a new
\* table lookup: the remaining fields of that entry are not used.
C7_EscapeThenNewLookup ==
    VlcRunning =>
        \A i \in DOMAIN vlc.trace :
            vlc.trace[i].kind = "escape" =>
                LET e == vlc.trace[i]
                IN  /\ OutputWordOf(e.index, e.field) = EscapeWord
                    /\ e.n = 16
                    /\ InPayload(vlc.pFrameData, e.at, 16) =>
                           vlc.pOutput[e.out] = StreamBits(vlc.pFrameData, e.at, 16)
                    /\ e.out = vlc.trace[i - 1].out + 1
                    /\ e.ptr = vlc.trace[i - 1].ptr + 1
                    /\ IF i < Len(vlc.trace)
                       THEN vlc.trace[i + 1].kind \in {"lookup", "tbl1"}
                       ELSE vlc.pc = "lookup"

\* a frame decoded to its end with an escape in field 1, in field 2 and in
\* field 3, each followed by a lookup
C7_Witness ==
    /\ vlc.pc = "done"
    /\ vlc.overreads = 0
    /\ \A k \in 1..3 :
          \E i \in DOMAIN vlc.trace :
              /\ vlc.trace[i].kind = "escape"
              /\ vlc.trace[i].field = k
              /\ vlc.trace[i + 1].kind = "lookup"

\* C8 as stated: on a payload that holds no end-of-frame value,
\* decode_bitstream reads no word at or past the end of the payload.
C8_NoReadPastPayload ==
    (VlcRunning /\ ~vlc.ended) => vlc.overreads = 0

(***************************************************************************)
(* The audio decoder.  mWorkBits is kept as two 16-bit halves, as an       *)
(* unsigned 32-bit value (its declaration, in masher.hpp, is not among the *)
(* sources).  rawFrameBuffer is a sequence of 16-bit words and             *)
(* mAudioFrameDataPtr counts words from its start; a read at or past its   *)
(* end yields any word the action is given and is counted in overreads.    *)
(* Output positions count 16-bit samples from the outPtr handed to         *)
(* decode_audio_frame.                                                     *)
(***************************************************************************)
ToS16(v) == SignExtend16(v % 65536)

\* value >> n in 32 bits, unsigned, 0 <= n <= 16
ShiftRight32(value, n) ==
    [hi |-> value.hi \div Pow2(n),
     lo |-> (value.lo \div Pow2(n)) + ((value.hi % Pow2(n)) * Pow2(16 - n))]

\* the table init_Snd_tbl fills, lines 937-953: the number of bits of index
RECURSIVE gSndTbl_byte_62EEB0(_)
gSndTbl_byte_62EEB0(index) ==
    IF index <= 0 THEN 0 ELSE 1 + gSndTbl_byte_62EEB0(index \div 2)

GetSoundTableValue_Mutant(tblIndex) ==
    LET positiveTblIdx == IF tblIndex < 0 THEN -tblIndex ELSE tblIndex
        tableValue == gSndTbl_byte_62EEB0((positiveTblIdx \div 128) % 256)
        result == (positiveTblIdx \div Pow2(tableValue)) % 65536
    IN  IF tblIndex < 0 THEN -result ELSE result

\* lines 767-777
GetSoundTableValue(tblIndex) ==
    LET positiveTblIdx == IF tblIndex < 0 THEN -tblIndex ELSE tblIndex
        shiftedIdx == (positiveTblIdx \div 128) % 256
        tableValue == gSndTbl_byte_62EEB0(shiftedIdx)
        result == Or16((tableValue * 128) % 65536,
                       (positiveTblIdx \div Pow2(tableValue)) % 65536)
    IN  IF tblIndex < 0 THEN -result ELSE result

sub_408F50_Mutant(sample, undefined) ==
    LET absSample == IF sample < 0 THEN -sample ELSE sample
        sampleBits == absSample \div 128
    IN  IF sampleBits >= 16 THEN undefined
        ELSE ToS16(((absSample % 128) * Pow2(sampleBits)) % 65536)

\* lines 779-796; a shift by 32 or more has no defined result and yields
\* the word `undefined`
sub_408F50(sample, undefined) ==
    LET absSample == IF sample < 0 THEN -sample ELSE sample
        sampleBits == absSample \div 128
        sampleMasked == absSample % 128
        shifted == IF sampleBits >= 32 THEN undefined
                   ELSE IF sampleBits >= 16 THEN 0
                   ELSE (sampleMasked * Pow2(sampleBits)) % 65536
        extra == IF sampleBits < 2 THEN 0
                 ELSE IF sampleBits - 2 >= 32 THEN undefined
                 ELSE IF sampleBits - 2 >= 16 THEN 0
                 ELSE Pow2(sampleBits - 2)
        result == ToS16(Or16(shifted, extra))
    IN  IF sample < 0 THEN ToS16(-result) ELSE result

ReadNextAudioWord_Mutant(a, value, junk) ==
    IF a.mUsedBits < 16
    THEN LET inside == a.mAudioFrameDataPtr < Len(a.rawFrameBuffer)
             srcVal == IF inside THEN a.rawFrameBuffer[a.mAudioFrameDataPtr + 1] ELSE junk
         IN  [a EXCEPT !.mWorkBits = Or32(value, ShiftLeft32([hi |-> 0, lo |-> srcVal],
                                                             a.mUsedBits)),
                       !.mAudioFrameDataPtr = @ + 1,
                       !.mUsedBits = @ + 16,
                       !.overreads = @ + (IF inside THEN 0 ELSE 1)]
    ELSE [a EXCEPT !.mWorkBits = value]

\* lines 798-808, on [a EXCEPT mWorkBits = value]
ReadNextAudioWord(a, value, junk) ==
    IF a.mUsedBits <= 16
    THEN LET inside == a.mAudioFrameDataPtr < Len(a.rawFrameBuffer)
             srcVal == IF inside THEN a.rawFrameBuffer[a.mAudioFrameDataPtr + 1] ELSE junk
         IN  [a EXCEPT !.mWorkBits = Or32(value, ShiftLeft32([hi |-> 0, lo |-> srcVal],
                                                             a.mUsedBits)),
                       !.mAudioFrameDataPtr = @ + 1,
                       !.mUsedBits = @ + 16,
                       !.overreads = @ + (IF inside THEN 0 ELSE 1)]
    ELSE [a EXCEPT !.mWorkBits = value]

SndRelated_sub_409650_Mutant(a, junk) ==
    LET numBits == a.mUsedBits % 4
    IN  [a EXCEPT !.mUsedBits = @ - numBits, !.consumed = @ + numBits,
                  !.mWorkBits = [hi |-> @.hi \div Pow2(numBits),
                                 lo |-> (@.lo \div Pow2(numBits))
                                          + ((@.hi % Pow2(numBits)) * Pow2(16 - numBits))]]

\* lines 810-817
SndRelated_sub_409650(a, junk) ==
    LET numBits == a.mUsedBits % 8
    IN  ReadNextAudioWord([a EXCEPT !.mUsedBits = @ - numBits, !.consumed = @ + numBits],
                          ShiftRight32(a.mWorkBits, numBits), junk)

\* lines 819-826, for numBits in 1..16: the reader after the call, with the
\* value returned in ret
NextSoundBits(a, numBits, junk) ==
    LET ret == ToS16(a.mWorkBits.lo % Pow2(numBits))
    IN  [ReadNextAudioWord([a EXCEPT !.mUsedBits = @ - numBits, !.consumed = @ + numBits],
                           ShiftRight32(a.mWorkBits, numBits), junk)
            EXCEPT !.ret = ret]

\* lines 828-840: the sample after the call, and the value returned
SampleMatches(sample, bitNum) ==
    LET bitMask == Pow2(bitNum - 1)
        low == sample % 65536
    IN  IF sample # bitMask
        THEN [matched |-> TRUE,
              sample |-> IF Bit(low, bitNum - 1) = 1
                         THEN ToS16(-((sample - low) + (low - bitMask)))
                         ELSE sample]
        ELSE [matched |-> FALSE, sample |-> sample]

StoreSample_Mutant(a, value) ==
    [a EXCEPT !.outBuffer = [i \in DOMAIN a.outBuffer \cup {a.outPtr} |->
                                IF i = a.outPtr THEN value % 65536 ELSE a.outBuffer[i]],
              !.writes = Append(@, a.outPtr),
              !.outPtr = @ + 1]

\* *outPtr = value; outPtr += mAudioFrameSizeBytes
StoreSample(a, value) ==
    [a EXCEPT !.outBuffer = [i \in DOMAIN a.outBuffer \cup {a.outPtr} |->
                                IF i = a.outPtr THEN value % 65536 ELSE a.outBuffer[i]],
              !.writes = Append(@, a.outPtr),
              !.outPtr = @ + a.mAudioFrameSizeBytes]

ReadResidual_Mutant(a, junk) ==
    LET r1 == NextSoundBits(a, a.firstWord, junk)
        m1 == SampleMatches(r1.ret, a.firstWord)
        r2 == NextSoundBits(r1, a.secondWord, junk)
        m2 == SampleMatches(r2.ret, a.secondWord)
        r3 == NextSoundBits(r2, a.thirdWord, junk)
        m3 == SampleMatches(r3.ret, a.thirdWord)
    IN  IF m1.matched THEN [r2 EXCEPT !.ret = m1.sample]
        ELSE IF m2.matched THEN [r2 EXCEPT !.ret = m2.sample]
        ELSE [r3 EXCEPT !.ret = m3.sample]

\* lines 875-893: the residual of one sample
ReadResidual(a, junk) ==
    LET r1 == NextSoundBits(a, a.firstWord, junk)
        m1 == SampleMatches(r1.ret, a.firstWord)
        r2 == NextSoundBits(r1, a.secondWord, junk)
        m2 == SampleMatches(r2.ret, a.secondWord)
        r3 == NextSoundBits(r2, a.thirdWord, junk)
        m3 == SampleMatches(r3.ret, a.thirdWord)
    IN  IF m1.matched THEN [r1 EXCEPT !.ret = m1.sample]
        ELSE IF m2.matched THEN [r2 EXCEPT !.ret = m2.sample]
        ELSE [r3 EXCEPT !.ret = m3.sample]

PredictSample_Mutant(a, samplePart, undefined) ==
    LET previous == (5 * a.previousValue2) - (4 * a.previousValue3)
        samplePartOrTableIndex == (a.previousValue1 + previous) \div 2
    IN  IF a.useTableFlag # 0
        THEN sub_408F50(ToS16(samplePart + GetSoundTableValue(ToS16(samplePartOrTableIndex))),
                        undefined)
        ELSE ToS16(samplePartOrTableIndex + samplePart)

\* lines 895-912: the sample the predictor gives for the residual samplePart
PredictSample(a, samplePart, undefined) ==
    LET previous == (5 * a.previousValue3) - (4 * a.previousValue2)
        samplePartOrTableIndex == (a.previousValue1 + previous) \div 2
    IN  IF a.useTableFlag # 0
        THEN sub_408F50(ToS16(samplePart + GetSoundTableValue(ToS16(samplePartOrTableIndex))),
                        undefined)
        ELSE ToS16(samplePartOrTableIndex + samplePart)

\* lines 781-787 on the argument of line 903: does sub_408F50 shift by 32
\* or more
ShiftIsUndefined(a, samplePart) ==
    LET previous == (5 * a.previousValue3) - (4 * a.previousValue2)
        samplePartOrTableIndex == (a.previousValue1 + previous) \div 2
        sample == ToS16(samplePart + GetSoundTableValue(ToS16(samplePartOrTableIndex)))
    IN  a.useTableFlag # 0 /\ (IF sample < 0 THEN -sample ELSE sample) \div 128 >= 32

UndefinedWords == {0, 65535}

\* lines 960-965: the decompressor is constructed and set up, the output is
\* cleared over numSamplesPerFrame * 4 bytes, and the first call is made
\* with outPtr and isLast = false
NewAudio(rawFrameBuffer, numSamplesPerFrame) ==
    LET word(i) == IF i < Len(rawFrameBuffer) THEN rawFrameBuffer[i + 1] ELSE 0
    IN  [pc |-> "seeds",
         rawFrameBuffer |-> rawFrameBuffer,
         numSamplesPerFrame |-> numSamplesPerFrame,
         mAudioFrameSizeBytes |-> 2,
         mWorkBits |-> [hi |-> word(1), lo |-> word(0)],
         mAudioFrameDataPtr |-> 2,
         mUsedBits |-> 32,
         overreads |-> IF Len(rawFrameBuffer) >= 2 THEN 0 ELSE 2 - Len(rawFrameBuffer),
         consumed |-> 0,                 \* bits taken from the work register so far
         undefinedShifts |-> 0,          \* sub_408F50 calls that shifted by 32 or more
         ret |-> 0,                      \* the value NextSoundBits returned last
         outBuffer |-> [i \in 0..(2 * numSamplesPerFrame - 1) |-> 0],
         outBase |-> 0,                  \* the outPtr of the call in progress
         outPtr |-> 0,
         isLast |-> FALSE,
         writes |-> <<>>,                \* the positions the call in progress has written
         calls |-> <<>>,                 \* the calls that have returned
         useTableFlag |-> 0,
         firstWord |-> 0,
         secondWord |-> 0,
         thirdWord |-> 0,
         previousValue1 |-> 0,
         previousValue2 |-> 0,
         previousValue3 |-> 0,
         counter |-> 0]

decode_audio_frame_Begin ==
    /\ audio.pc = "start"
    /\ audio' = NewAudio(audio.rawFrameBuffer, audio.numSamplesPerFrame)
    /\ UNCHANGED <<containerVars, video, vlc, sound>>

ReadHeaderAndSeeds_Mutant(a, junk) ==
    LET h1 == NextSoundBits(a, 16, junk)
        h2 == NextSoundBits(h1, 16, junk)
        h3 == NextSoundBits(h2, 16, junk)
        h4 == NextSoundBits(h3, 16, junk)
        p1 == NextSoundBits(h4, 16, junk)
        s1 == StoreSample(p1, p1.ret)
        p2 == NextSoundBits(s1, 16, junk)
        s2 == StoreSample(p2, p2.ret)
        p3 == NextSoundBits(s2, 16, junk)
        s3 == StoreSample(p3, p3.ret)
    IN  [s3 EXCEPT !.useTableFlag = h1.ret,
                   !.firstWord = h2.ret,
                   !.secondWord = h3.ret,
                   !.thirdWord = h4.ret,
                   !.previousValue1 = p1.ret,
                   !.previousValue2 = p2.ret,
                   !.previousValue3 = a.previousValue3,
                   !.counter = 0]

\* lines 844-867: the four header words and the three seeds
ReadHeaderAndSeeds(a, junk) ==
    LET h1 == NextSoundBits(a, 16, junk)
        h2 == NextSoundBits(h1, 16, junk)
        h3 == NextSoundBits(h2, 16, junk)
        h4 == NextSoundBits(h3, 16, junk)
        p1 == NextSoundBits(h4, 16, junk)
        s1 == StoreSample(p1, p1.ret)
        p2 == NextSoundBits(s1, 16, junk)
        s2 == StoreSample(p2, p2.ret)
        p3 == NextSoundBits(s2, 16, junk)
        s3 == StoreSample(p3, p3.ret)
    IN  [s3 EXCEPT !.useTableFlag = h1.ret,
                   !.firstWord = h2.ret,
                   !.secondWord = h3.ret,
                   !.thirdWord = h4.ret,
                   !.previousValue1 = p1.ret,
                   !.previousValue2 = p2.ret,
                   !.previousValue3 = p3.ret,
                   !.counter = 0]

\* lines 869-871 and 914: is there a (further) pass of the sample loop
HasSampleLeft(numSamplesPerFrame, counter) ==
    numSamplesPerFrame > 3 /\ counter < numSamplesPerFrame - 3

decode_16bit_audio_frame_Seeds ==
    /\ audio.pc = "seeds"
    /\ \E junk \in UndefinedWords :
          \E a \in {ReadHeaderAndSeeds(audio, junk)} :
              audio' = [a EXCEPT !.pc = IF HasSampleLeft(a.numSamplesPerFrame, 0)
                                        THEN "sample" ELSE "return"]
    /\ UNCHANGED <<containerVars, video, vlc, sound>>

\* lines 871-913: one pass of the sample loop
decode_16bit_audio_frame_Sample ==
    /\ audio.pc = "sample"
    /\ \E junk \in UndefinedWords :
          \E r \in {ReadResidual(audio, junk)} :
          \E a \in {StoreSample(r, PredictSample(r, r.ret, junk))} :
              audio' = [a EXCEPT
                  !.previousValue1 = r.previousValue2,
                  !.previousValue2 = r.previousValue3,
                  !.previousValue3 = ToS16(a.outBuffer[r.outPtr]),
                  !.counter = @ + 1,
                  !.undefinedShifts = @ + (IF ShiftIsUndefined(r, r.ret) THEN 1 ELSE 0),
                  !.pc = IF HasSampleLeft(a.numSamplesPerFrame, r.counter + 1)
                         THEN "sample" ELSE "return"]
    /\ UNCHANGED <<containerVars, video, vlc, sound>>

\* lines 916-920 and 966-971: the end of a call, and what decode_audio_frame
\* does when the call returns
decode_16bit_audio_frame_Return ==
    /\ audio.pc = "return"
    /\ \E junk \in UndefinedWords :
          \E a \in {IF audio.isLast THEN audio ELSE SndRelated_sub_409650(audio, junk)} :
              audio' = [a EXCEPT
                  !.calls = Append(@, [outPtr |-> a.outBase,
                                       isLast |-> a.isLast,
                                       writes |-> a.writes,
                                       consumed |-> a.consumed,
                                       \* buffered and loaded bits at the return
                                       usedBefore |-> audio.mUsedBits,
                                       mUsedBits |-> a.mUsedBits,
                                       mAudioFrameDataPtr |-> a.mAudioFrameDataPtr]),
                  !.writes = <<>>,
                  !.isLast = TRUE,
                  !.outBase = IF a.isLast THEN @ ELSE @ + 1,
                  !.outPtr = IF a.isLast THEN @ ELSE a.outBase + 1,
                  !.pc = IF ~a.isLast /\ a.mAudioFrameSizeBytes = 2 THEN "seeds" ELSE "done"]
    /\ UNCHANGED <<containerVars, video, vlc, sound>>

(***************************************************************************)
(* The raw audio frames of the audio model: per channel four header words, *)
(* three seeds and the residual fields of the remaining samples, least     *)
(* significant bit first; the second channel starts at a multiple of 8     *)
(* bits.                                                                   *)
(***************************************************************************)
FieldBits(value, width) == Eager([i \in 1..width |-> Bit(value % Pow2(width), i - 1)])

PackWordsLsb(bits) ==
    Eager([w \in 1..((Len(bits) + 15) \div 16) |->
        SeqSum(Eager([j \in 1..16 |->
            IF 16 * (w - 1) + j <= Len(bits)
            THEN bits[16 * (w - 1) + j] * Pow2(j - 1) ELSE 0]))])

\* the value SampleMatches rejects at a width
Sentinel(width) == Pow2(width - 1)

\* the residual fields of sample k of a frame
ResidualBits(f, k) ==
    LET kind == IF f.kind = "mixed" THEN <<"first", "second", "third", "none">>[(k % 4) + 1]
                ELSE f.kind
        reject1 == FieldBits(Sentinel(f.w1), f.w1)
        reject2 == FieldBits(Sentinel(f.w2), f.w2)
    IN  CASE kind = "first" -> FieldBits(f.residual, f.w1)
          [] kind = "second" -> reject1 \o FieldBits(Sentinel(f.w2) + f.residual, f.w2)
          [] kind = "third" -> reject1 \o reject2 \o FieldBits(f.residual, f.w3)
          [] OTHER -> reject1 \o reject2 \o FieldBits(Sentinel(f.w3), f.w3)

ChannelBits(f, numSamplesPerFrame) ==
    LET bits == FieldBits(f.flag, 16) \o FieldBits(f.w1, 16) \o FieldBits(f.w2, 16)
                    \o FieldBits(f.w3, 16) \o FieldBits(f.seeds[1], 16)
                    \o FieldBits(f.seeds[2], 16) \o FieldBits(f.seeds[3], 16)
                    \o Flatten(Eager([k \in 1..(numSamplesPerFrame - 3) |-> ResidualBits(f, k)]))
    IN  bits \o Repeat(0, (8 - (Len(bits) % 8)) % 8)

MakeAudioFrame(f, numSamplesPerFrame) ==
    PackWordsLsb(ChannelBits(f, numSamplesPerFrame) \o ChannelBits(f, numSamplesPerFrame))
        \o <<0, 0>>

AudioShape(flag, w1, w2, w3, seeds, kind, residual) ==
    [flag |-> flag, w1 |-> w1, w2 |-> w2, w3 |-> w3, seeds |-> seeds, kind |-> kind,
     residual |-> residual]

AudioShapes ==
    { AudioShape(0, 4, 6, 8, <<0, 0, 0>>, "first", 1),
      AudioShape(0, 3, 5, 7, <<100, -200, 300>>, "mixed", 3),
      AudioShape(1, 4, 6, 8, <<10, 20, 30>>, "mixed", 2),
      AudioShape(0, 2, 2, 2, <<1, 2, 3>>, "none", 0),
      AudioShape(1, 16, 16, 16, <<32767, -32768, 5>>, "first", 1),
      AudioShape(1, 16, 16, 16, <<0, 0, 0>>, "first", 5000) }

InitAudio ==
    /\ \E f \in AudioShapes, n \in 0..MaxSamples :
          audio = [pc |-> "start", rawFrameBuffer |-> MakeAudioFrame(f, n),
                   numSamplesPerFrame |-> n]
    /\ stream = <<>>
    /\ masher = NewMasher
    /\ phase = "new"
    /\ thrown = NoException
    /\ updateCalls = <<>>
    /\ video = IdleVideo
    /\ vlc = IdleVlc
    /\ sound = IdleSound

NextAudio ==
    \/ decode_audio_frame_Begin
    \/ decode_16bit_audio_frame_Seeds
    \/ decode_16bit_audio_frame_Sample
    \/ decode_16bit_audio_frame_Return

SpecAudio == InitAudio /\ [][NextAudio]_vars

(***************************************************************************)
(* Claims about the audio decoder, checked under SpecAudio.                *)
(***************************************************************************)
\* C5 as stated: for every samplesPerFrame N, N < 3 included, a
\* decode_16bit_audio_frame call that has returned has written exactly the
\* positions outPtr, outPtr + stride, ..., outPtr + (N - 1) * stride, once
\* each and in this order, and no other position.
C5_WritesExactlyN ==
    audio.pc \in {"seeds", "sample", "return", "done"} =>
        \A i \in DOMAIN audio.calls :
            audio.calls[i].writes =
                [k \in 1..audio.numSamplesPerFrame |->
                    audio.calls[i].outPtr + (k - 1) * audio.mAudioFrameSizeBytes]

\* the bits of the raw frame taken so far, from the reader's own state: the
\* 16-bit words loaded minus the bits still buffered
BitsTaken(mAudioFrameDataPtr, mUsedBits) == 16 * mAudioFrameDataPtr - mUsedBits

\* C11: when the first channel decode (isLast = false) returns, the number
\* of bits taken from the start of the raw frame is a multiple of 8, and
\* its last step discarded between 0 and 7 bits to get there; the last
\* channel decode (isLast = true) discards no bits.
C11_AlignedAfterFirstChannel ==
    audio.pc \in {"seeds", "sample", "return", "done"} =>
        \A i \in DOMAIN audio.calls :
            LET c == audio.calls[i]
                discarded == c.usedBefore - c.mUsedBits +
                             (IF c.mUsedBits > c.usedBefore THEN 16 ELSE 0)
            IN  IF c.isLast
                THEN c.mUsedBits = c.usedBefore
                ELSE /\ BitsTaken(c.mAudioFrameDataPtr, c.mUsedBits) % 8 = 0
                     /\ c.consumed % 8 = 0
                     /\ discarded \in 0..7

\* a frame decoded to its end whose first channel ended off a byte boundary
C11_Witness ==
    /\ audio.pc = "done"
    /\ Len(audio.calls) = 2
    /\ audio.calls[1].usedBefore % 8 # 0
    /\ audio.calls[1].mUsedBits % 8 = 0
    /\ audio.calls[2].isLast
    /\ audio.numSamplesPerFrame > 3

(***************************************************************************)
(* GetSoundTableValue and sub_408F50 as functions of a 16-bit sample: the  *)
(* state is the argument, then the argument with the results.  The second  *)
(* GetSoundTableValue call takes the first result as an s16, as the        *)
(* parameter type makes it.                                                *)
(***************************************************************************)
SampleValues == (-32768)..32767

SignTableTwice(x) == GetSoundTableValue(ToS16(GetSoundTableValue(x)))

InitSndTbl ==
    /\ \E x \in SampleValues : audio = [pc |-> "sample value", x |-> x]
    /\ stream = <<>>
    /\ masher = NewMasher
    /\ phase = "new"
    /\ thrown = NoException
    /\ updateCalls = <<>>
    /\ video = IdleVideo
    /\ vlc = IdleVlc
    /\ sound = IdleSound

\* GetSoundTableValue applied twice, to x and to the next sample value
GetSoundTableValue_Twice ==
    /\ audio.pc = "sample value"
    /\ audio' = [pc |-> "sign table twice",
                 x |-> audio.x,
                 once |-> GetSoundTableValue(audio.x),
                 twice |-> SignTableTwice(audio.x),
                 twiceOfNext |-> IF audio.x + 1 \in SampleValues
                                 THEN SignTableTwice(audio.x + 1)
                                 ELSE SignTableTwice(audio.x)]
    /\ UNCHANGED <<containerVars, video, vlc, sound>>

\* sub_408F50 applied to GetSoundTableValue(x)
sub_408F50_OfTableValue ==
    /\ audio.pc = "sample value"
    /\ \E undefined \in UndefinedWords :
          audio' = [pc |-> "expanded",
                    x |-> audio.x,
                    tableValue |-> GetSoundTableValue(audio.x),
                    expanded |-> sub_408F50(ToS16(GetSoundTableValue(audio.x)), undefined)]
    /\ UNCHANGED <<containerVars, video, vlc, sound>>

NextSndTbl == GetSoundTableValue_Twice \/ sub_408F50_OfTableValue

SpecSndTbl == InitSndTbl /\ [][NextSndTbl]_vars

\* -1, 0 or 1
Sign(v) == IF v < 0 THEN -1 ELSE IF v > 0 THEN 1 ELSE 0

\* the number of bits needed to represent i, by its definition
BitsNeeded(i) == CHOOSE n \in 0..16 : i < Pow2(n) /\ (n = 0 \/ i >= Pow2(n - 1))

\* C12: for every x in -32768..32767, GetSoundTableValue applied twice has
\* the sign of x (0 for x = 0) and is not above its value at x + 1, so it is
\* monotonically non-decreasing; the table entry used is the number of bits
\* needed to represent its index.
C12_SignTableTwiceMonotone ==
    audio.pc = "sign table twice" =>
        /\ Sign(audio.twice) = Sign(audio.x)
        /\ audio.twice <= audio.twiceOfNext
        /\ \A i \in {((IF audio.x < 0 THEN -audio.x ELSE audio.x) \div 128) % 256} :
               gSndTbl_byte_62EEB0(i) = BitsNeeded(i)

\* a negative sample whose value after two applications is strictly below
\* that of its successor
C12_Witness ==
    /\ audio.pc = "sign table twice"
    /\ audio.x < -128
    /\ audio.twice < audio.twiceOfNext
    /\ audio.twice # audio.x

Abs(v) == IF v < 0 THEN -v ELSE v

\* C13 as stated: for |x| <= 32767, sub_408F50(GetSoundTableValue(x)) differs
\* from x by less than 2^t, t the table entry of (|x| >> 7) & 0xFF, hence by
\* less than 256, has the sign of x, and equals x if and only if |x| < 128.
C13_ExpandExactOnlyBelow128 ==
    (audio.pc = "expanded" /\ Abs(audio.x) <= 32767) =>
        /\ Abs(audio.expanded - audio.x) < Pow2(BitsNeeded((Abs(audio.x) \div 128) % 256))
        /\ Abs(audio.expanded - audio.x) < 256
        /\ Sign(audio.expanded) = Sign(audio.x)
        /\ (audio.expanded = audio.x) <=> (Abs(audio.x) < 128)

\* C13, amended: for |x| <= 32767, sub_408F50(GetSoundTableValue(x)) differs
\* from x by less than 2^t, t the table entry of (|x| >> 7) & 0xFF, hence by
\* less than 256, has the sign of x, and equals x whenever |x| < 128 (it
\* also equals x for some larger |x|, such as 128).
C13_ExpandNearSample ==
    (audio.pc = "expanded" /\ Abs(audio.x) <= 32767) =>
        /\ Abs(audio.expanded - audio.x) < Pow2(BitsNeeded((Abs(audio.x) \div 128) % 256))
        /\ Abs(audio.expanded - audio.x) < 256
        /\ Sign(audio.expanded) = Sign(audio.x)
        /\ Abs(audio.x) < 128 => audio.expanded = audio.x

\* a sample of magnitude above 128 that is not reproduced
C13_Witness ==
    /\ audio.pc = "expanded"
    /\ audio.x < -4096
    /\ audio.expanded # audio.x
    /\ Abs(audio.expanded - audio.x) > 64

(***************************************************************************)
(* Two Masher instances decoding at once.  g_252_buffer_unk_63580C,        *)
(* g_252_buffer_unk_635A0C (lines 393-394) and Cr_block .. Y4_block (lines *)
(* 525-530) are objects of the translation unit, one of each for the       *)
(* process: video.quant and video.blocks.  Everything else an instance     *)
(* uses is its own: video.inst[m].  A call is followed in three kinds of   *)
(* steps: the entry, the six blocks of a macroblock with their idct, and   *)
(* the blit of that macroblock.                                            *)
(***************************************************************************)
Instances == {"first", "second"}

TwoMasherInputs ==
    { [width |-> 16, height |-> 16, kind |-> k, quantScale |-> q, stale |-> ZeroSlot] :
         k \in {"ac", "dc"}, q \in {0, 1, 2} }
    \cup { [width |-> 16, height |-> 32, kind |-> "ac", quantScale |-> 1, stale |-> ZeroSlot] }

InitTwoMashers ==
    /\ \E i \in [Instances -> TwoMasherInputs] :
         video = [pc |-> "two mashers",
                  inst |-> [m \in Instances |->
                              NewVideo(i[m].width, i[m].height,
                                       FrameWords(i[m].kind, i[m].width, i[m].height),
                                       i[m].quantScale, i[m].stale)],
                  quant |-> [g_252_buffer_unk_63580C |-> [k \in 1..64 |-> 0],
                             g_252_buffer_unk_635A0C |-> [k \in 1..64 |-> 0]],
                  blocks |-> NoBlocks]
    /\ stream = <<>>
    /\ masher = NewMasher
    /\ phase = "new"
    /\ thrown = NoException
    /\ updateCalls = <<>>
    /\ vlc = IdleVlc
    /\ sound = IdleSound
    /\ audio = IdleAudio

\* lines 706-721, run by instance m
TwoMashers_ParseVideoFrame_Begin(m) ==
    /\ video.pc = "two mashers"
    /\ video.inst[m].pc = "start"
    /\ \E v \in {ParseVideoFrame_Entry(video.inst[m])} :
          video' = [video EXCEPT !.inst[m] = v,
                                 !.quant = IF v.pc = "loop" THEN v.quant ELSE @]
    /\ UNCHANGED <<containerVars, vlc, audio, sound>>

\* lines 729-750, run by instance m: the blocks are dequantized with the
\* arrays as they are now, and their idct goes to Cr_block .. Y4_block
TwoMashers_ParseVideoFrame_Blocks(m) ==
    /\ video.pc = "two mashers"
    /\ video.inst[m].pc = "loop"
    /\ \E r \in {MacroblockBlocks(video.inst[m], video.quant)} :
          video' = [video EXCEPT !.inst[m] = [f \in DOMAIN @ \cup {"d"} |->
                                                 IF f = "pc" THEN "blit"
                                                 ELSE IF f = "d" THEN r.d
                                                 ELSE @[f]],
                                 !.blocks = r.blocks]
    /\ UNCHANGED <<containerVars, vlc, audio, sound>>

\* lines 753-758, run by instance m: ConvertYuvToRgbAndBlit reads Cr_block ..
\* Y4_block as they are now
TwoMashers_ParseVideoFrame_Blit(m) ==
    /\ video.pc = "two mashers"
    /\ video.inst[m].pc = "blit"
    /\ video' = [video EXCEPT
                   !.inst[m] = MacroblockBlit([video.inst[m] EXCEPT !.pc = "loop"],
                                              video.inst[m].d, video.blocks)]
    /\ UNCHANGED <<containerVars, vlc, audio, sound>>

NextTwoMashers ==
    \E m \in Instances :
        \/ TwoMashers_ParseVideoFrame_Begin(m)
        \/ TwoMashers_ParseVideoFrame_Blocks(m)
        \/ TwoMashers_ParseVideoFrame_Blit(m)

SpecTwoMashers == InitTwoMashers /\ [][NextTwoMashers]_vars

\* ParseVideoFrame run from entry to return with nothing else running
RECURSIVE ParseVideoFrame_Alone(_)
ParseVideoFrame_Alone(v) ==
    IF v.pc = "done" THEN v
    ELSE IF v.pc = "start" THEN ParseVideoFrame_Alone(ParseVideoFrame_Entry(v))
    ELSE ParseVideoFrame_Alone(
             CHOOSE n \in {MacroblockBlit(v, r.d, r.blocks) :
                              r \in {MacroblockBlocks(v, v.quant)}} : TRUE)

\* the instance's frame as it was at entry
AtEntry(v) == NewVideo(v.mWidth, v.mHeight, v.words, v.quantScale, v.stale)

\* C14: when two Masher instances run ParseVideoFrame with their steps
\* interleaved in any order, each instance has written, at its return, the
\* pixels it writes when run alone.
C14_InterleavedPixelsAsAlone ==
    video.pc = "two mashers" =>
        \A m \in Instances :
            video.inst[m].pc = "done" =>
                video.inst[m].pixelBuffer = ParseVideoFrame_Alone(AtEntry(video.inst[m])).pixelBuffer

(***************************************************************************)
(* decode_audio_frame called frame after frame.  Each call constructs an   *)
(* AudioDecompressor whose members hold whatever the storage held, modelled*)
(* as what the previous call left; the output buffer is the caller's and   *)
(* keeps its content between calls.  audio.pending are the raw frames   *)
(* still to decode, audio.produced the output buffers of the calls made.   *)
(***************************************************************************)
\* lines 923-930
SetupAudioDecodePtrs(a, rawFrameBuffer) ==
    LET word(i) == IF i < Len(rawFrameBuffer) THEN rawFrameBuffer[i + 1] ELSE 0
    IN  [a EXCEPT !.rawFrameBuffer = rawFrameBuffer,
                  !.mWorkBits = [hi |-> word(1), lo |-> word(0)],
                  !.mAudioFrameDataPtr = 2,
                  !.mUsedBits = 32,
                  !.overreads = IF Len(rawFrameBuffer) >= 2 THEN 0
                                ELSE 2 - Len(rawFrameBuffer)]

\* lines 960-965: the call on the next raw frame
decode_audio_frame_NextFrame ==
    /\ audio.pc = "done"
    /\ "pending" \in DOMAIN audio
    /\ audio.pending # <<>>
    /\ \E a \in {SetupAudioDecodePtrs([audio EXCEPT !.mAudioFrameSizeBytes = 2],
                                      Head(audio.pending))} :
          audio' = [a EXCEPT
              !.pc = "seeds",
              !.pending = Tail(@),
              !.produced = Append(@, audio.outBuffer),
              \* memset(outPtr, 0, numSamplesPerFrame * 4)
              !.outBuffer = [i \in DOMAIN @ |-> IF i < 2 * a.numSamplesPerFrame THEN 0 ELSE @[i]],
              !.outBase = 0,
              !.outPtr = 0,
              !.isLast = FALSE,
              !.consumed = 0,
              !.undefinedShifts = 0,
              !.writes = <<>>,
              !.calls = <<>>]
    /\ UNCHANGED <<containerVars, video, vlc, sound>>

\* a raw frame, another one, and the first one again
InitAudioFrames ==
    /\ \E f \in AudioShapes, g \in AudioShapes, n \in 0..MaxSamples :
          audio = [f2 \in DOMAIN NewAudio(<<>>, n) \cup {"pending", "produced"} |->
                      IF f2 = "pc" THEN "done"
                      ELSE IF f2 = "pending"
                      THEN <<MakeAudioFrame(f, n), MakeAudioFrame(g, n), MakeAudioFrame(f, n)>>
                      ELSE IF f2 = "produced" THEN <<>>
                      ELSE NewAudio(<<>>, n)[f2]]
    /\ stream = <<>>
    /\ masher = NewMasher
    /\ phase = "new"
    /\ thrown = NoException
    /\ updateCalls = <<>>
    /\ video = IdleVideo
    /\ vlc = IdleVlc
    /\ sound = IdleSound

NextAudioFrames ==
    \/ decode_audio_frame_NextFrame
    \/ decode_16bit_audio_frame_Seeds
    \/ decode_16bit_audio_frame_Sample
    \/ decode_16bit_audio_frame_Return

SpecAudioFrames == InitAudioFrames /\ [][NextAudioFrames]_vars

\* C15: a raw frame decoded with defined operations only (every read inside
\* the frame, every shift below 32) decodes, after two earlier calls (on the
\* same frame and on any other frame), to the samples it decoded to in the
\* first call: per position, the same value.
C15_SamplesDependOnFrameOnly ==
    (/\ audio.pc = "done"
     /\ "pending" \in DOMAIN audio
     /\ Len(audio.produced) = 3
     /\ audio.overreads = 0
     /\ audio.undefinedShifts = 0) =>
        /\ audio.pending = <<>>
        /\ audio.outBuffer = audio.produced[2]

\* the third call has returned after a different frame came second, and the
\* frame has residuals
C15_Witness ==
    /\ audio.pc = "done"
    /\ "pending" \in DOMAIN audio
    /\ Len(audio.produced) = 3
    /\ audio.overreads = 0
    /\ audio.undefinedShifts = 0
    /\ audio.useTableFlag # 0
    /\ audio.numSamplesPerFrame > 3
    /\ audio.produced[3] # audio.produced[2]
    /\ audio.outBuffer = audio.produced[2]
    /\ \E i \in DOMAIN audio.outBuffer : audio.outBuffer[i] # 0

(***************************************************************************)
(* Claims about the order of Masher::Read, checked under SpecContainer.    *)
(***************************************************************************)
\* the stream position after the headers and the interleave size table:
\* where Read stands when it reaches line 82
FrameTableStart ==
    20 + (IF masher.mbHasVideo THEN 20 ELSE 0)
       + (IF masher.mbHasAudio THEN 20 + 4 * Len(masher.mAudioFrameSizes) ELSE 0)

PrebufferBytes == SeqSum(masher.mAudioFrameSizes)

ReadOfAudioStreamDone == phase = "open" /\ masher.mbHasAudio /\ Len(updateCalls) = 0

\* C16 as stated: on a stream that has audio, Read skips the prebuffer
\* payloads before it reads the frame size table, so entry i of the table is
\* the 32-bit value found 4 * i bytes after the end of the prebuffer payloads.
C16_TableReadAfterPrebuffer ==
    ReadOfAudioStreamDone =>
        \A i \in 1..masher.mFileHeader.mNumberOfFrames :
            /\ CanRead(stream, FrameTableStart + PrebufferBytes + 4 * (i - 1), 4)
            /\ masher.mFrameSizes[i]
                 = U32At(stream, FrameTableStart + PrebufferBytes + 4 * (i - 1))

\* C16, amended: on a stream that has audio, Read reads the frame size table
\* first, from the bytes right after the interleave size table, and skips
\* the prebuffer payloads after it: entry i is the 32-bit value at the table
\* start + 4 * i, and Read ends at the table's end plus the payload sizes.
C16_TableReadBeforePrebuffer ==
    ReadOfAudioStreamDone =>
        /\ \A i \in 1..masher.mFileHeader.mNumberOfFrames :
              masher.mFrameSizes[i] = U32At(stream, FrameTableStart + 4 * (i - 1))
        /\ masher.mStreamPos
             = FrameTableStart + 4 * masher.mFileHeader.mNumberOfFrames + PrebufferBytes

\* Read has succeeded on a stream with a prebuffer payload and two frames,
\* and the bytes after the payload are not the table
C16_Witness ==
    /\ ReadOfAudioStreamDone
    /\ PrebufferBytes > 0
    /\ masher.mFileHeader.mNumberOfFrames = 2
    /\ CanRead(stream, FrameTableStart + PrebufferBytes, 4)
    /\ masher.mFrameSizes[1] # U32At(stream, FrameTableStart + PrebufferBytes)

(***************************************************************************)
(* Masher::Update on streams with video and audio whose frame size table   *)
(* may understate a frame: the first frame holds v video bytes and its     *)
(* table entry is v - d; a well-formed frame follows.  d = 0 gives a       *)
(* well-formed stream.                                                     *)
(***************************************************************************)
UnderstatedParams ==
    { [DefaultParams EXCEPT !.frames = <<[v |-> x[1], a |-> -x[2]], FrameShape(2, sv, sa)>>,
                            !.interleave = [i \in 1..k |-> i]] :
        x \in {y \in (1..MaxFrameBytes) \X (0..MaxFrameBytes) : y[2] <= y[1]},
        sv \in 0..MaxFrameBytes, sa \in 0..MaxFrameBytes, k \in 0..MaxInterleave }

InitUnderstated ==
    /\ \E p \in UnderstatedParams : stream = MakeStream(p)
    /\ masher = NewMasher
    /\ phase = "new"
    /\ thrown = NoException
    /\ updateCalls = <<>>
    /\ video = IdleVideo
    /\ vlc = IdleVlc
    /\ sound = IdleSound
    /\ audio = IdleAudio

SpecUnderstated == InitUnderstated /\ [][NextContainer]_vars

(***************************************************************************)
(* Claims about Masher::Update, checked under SpecUnderstated.               *)
(***************************************************************************)
\* C17: on a stream with video and audio, an Update call on frame i, made
\* where the stream holds frameSize[i] + 4 more bytes, reads a videoSize not
\* above frameSize[i] (frameSize[i] - videoSize does not wrap) and consumes
\* frameSize[i] + 4 bytes.
C17_ConsumesFrameSizePlusFour ==
    \A k \in DOMAIN updateCalls :
        LET call == updateCalls[k]
            onFrame == call.frameBefore < masher.mFileHeader.mNumberOfFrames
            frameSize == masher.mFrameSizes[call.frameBefore + 1]
        IN  (/\ masher.mbHasVideo
             /\ masher.mbHasAudio
             /\ onFrame
             /\ CanRead(stream, call.posBefore, frameSize + 4)) =>
                /\ U32At(stream, call.posBefore) <= frameSize
                /\ call.posAfter - call.posBefore = frameSize + 4

(***************************************************************************)
(* Claims about the table selection of decode_bitstream, checked under     *)
(* SpecVlc.                                                                *)
(***************************************************************************)
\* entry i of the history is a table lookup whose 17 bits lie in the payload
IsKnownLookup(i) ==
    /\ vlc.trace[i].kind \in {"tbl1", "lookup"}
    /\ InPayload(vlc.pFrameData, vlc.trace[i].at, 17)

\* the words emitted up to the entry before entry i
OutBefore(i) == IF i = 1 THEN 0 ELSE vlc.trace[i - 1].out

\* C18 as stated: when the top 13 bits of the work register are >= 32 the
\* decoder indexes Tbl1 with the top 17 bits, consumes 8 bits and the
\* entry's bitsToShift bits and emits the entry's output word; when they
\* are < 32 it indexes Tbl2 with the 13-bit value and consumes the entry's
\* bitsToShift bits.
C18_Tbl1WhenIndexAtLeast32 ==
    VlcRunning =>
        \A i \in DOMAIN vlc.trace :
            IsKnownLookup(i) =>
                LET e == vlc.trace[i]
                    top13 == StreamBits(vlc.pFrameData, e.at, 13)
                    top17 == StreamBits(vlc.pFrameData, e.at, 17)
                IN  /\ top13 >= 32 =>
                          /\ e.kind = "tbl1"
                          /\ e.n = 8 + gTbl1(top17).mBitsToShift
                          /\ e.out = OutBefore(i) + 1
                          /\ vlc.pOutput[e.out] = gTbl1(top17).mOutputWord
                    /\ top13 < 32 =>
                          /\ e.kind = "lookup"
                          /\ e.index = top13
                          /\ e.n = gTbl2(top13).mBitsToShift

\* C18, amended: when the top 13 bits of the work register are < 32 the
\* decoder indexes Tbl1 with the top 17 bits, consumes 8 bits and the
\* entry's bitsToShift bits and emits the entry's output word; when they
\* are >= 32 it indexes Tbl2 with the 13-bit value and consumes the entry's
\* bitsToShift bits.
C18_Tbl1WhenIndexBelow32 ==
    VlcRunning =>
        \A i \in DOMAIN vlc.trace :
            IsKnownLookup(i) =>
                LET e == vlc.trace[i]
                    top13 == StreamBits(vlc.pFrameData, e.at, 13)
                    top17 == StreamBits(vlc.pFrameData, e.at, 17)
                IN  /\ top13 < 32 =>
                          /\ e.kind = "tbl1"
                          /\ e.n = 8 + gTbl1(top17).mBitsToShift
                          /\ e.out = OutBefore(i) + 1
                          /\ vlc.pOutput[e.out] = gTbl1(top17).mOutputWord
                    /\ top13 >= 32 =>
                          /\ e.kind = "lookup"
                          /\ e.index = top13
                          /\ e.n = gTbl2(top13).mBitsToShift

\* a decode that has used both tables on bits of the payload, the Tbl1
\* entry not being the first of its table
C18_Witness ==
    /\ VlcRunning
    /\ \E i \in DOMAIN vlc.trace :
          /\ IsKnownLookup(i)
          /\ vlc.trace[i].kind = "tbl1"
          /\ StreamBits(vlc.pFrameData, vlc.trace[i].at, 17) > 128
    /\ \E i \in DOMAIN vlc.trace :
          /\ IsKnownLookup(i)
          /\ vlc.trace[i].kind = "lookup"

(***************************************************************************)
(* Claims about the dequantization setup and the block header, checked     *)
(* under SpecVideo.  QY is the array the luma blocks are dequantized with, *)
(* QC the one of the chroma blocks; gQuantY and gQuantC are the constant   *)
(* tables they are filled from.  Entries are counted from 0.               *)
(***************************************************************************)
QY(i) == At(video.quant.g_252_buffer_unk_63580C, i)
QC(i) == At(video.quant.g_252_buffer_unk_635A0C, i)
gQuantY(i) == At(gQuant1_dword_42AEC8, i)
gQuantC(i) == At(gQaunt2_dword_42AFC4, i)

\* ParseVideoFrame has run the setup for the frame
SetupDone ==
    /\ video.pc \in {"loop", "done"}
    /\ video.mNumMacroblocksX > 0
    /\ video.mNumMacroblocksY > 0

\* C19 as stated: after the setup with scale qscale, QY[0] = QC[0] = 16; if
\* qscale > 0 then for every i in 0..62, QY[i+1] = qscale * gQuantY[i] and
\* QC[i+1] = qscale * gQuantC[i]; if qscale = 0 all 64 entries of both are 16.
C19_ChromaFromSameIndexAsLuma ==
    SetupDone =>
        /\ QY(0) = 16 /\ QC(0) = 16
        /\ video.quantScale > 0 =>
              \A i \in 0..62 : /\ QY(i + 1) = video.quantScale * gQuantY(i)
                               /\ QC(i + 1) = video.quantScale * gQuantC(i)
        /\ video.quantScale = 0 =>
              \A i \in 0..63 : QY(i) = 16 /\ QC(i) = 16

\* C19, amended: after the setup with scale qscale, QY[0] = QC[0] = 16; if
\* qscale > 0 then for every i in 0..62, QY[i+1] = qscale * gQuantY[i] and
\* QC[i+1] = qscale * gQuantC[i+1]; if qscale = 0 all 64 entries of both
\* are 16.
C19_ChromaFromNextIndex ==
    SetupDone =>
        /\ QY(0) = 16 /\ QC(0) = 16
        /\ video.quantScale > 0 =>
              \A i \in 0..62 : /\ QY(i + 1) = video.quantScale * gQuantY(i)
                               /\ QC(i + 1) = video.quantScale * gQuantC(i + 1)
        /\ video.quantScale = 0 =>
              \A i \in 0..63 : QY(i) = 16 /\ QC(i) = 16

\* the setup has run with scale 2
C19_Witness ==
    /\ SetupDone
    /\ video.quantScale = 2
    /\ QY(1) = 24
    /\ QC(1) = 36
    /\ QC(63) = 198

(***************************************************************************)
(* ddv_func7_DecodeMacroBlock_impl on a block that is a header word H and  *)
(* the end-of-block word, for every 16-bit H that is not itself the        *)
(* end-of-block word (line 408 skips those), as a chroma and as a luma     *)
(* block.                                                                  *)
(***************************************************************************)
HeaderWords == (0..65535) \ {MDEC_END}

InitBlockHeader ==
    /\ \E h \in HeaderWords, isYBlock \in BOOLEAN :
          video = [pc |-> "block", header |-> h, isYBlock |-> isYBlock]
    /\ stream = <<>>
    /\ masher = NewMasher
    /\ phase = "new"
    /\ thrown = NoException
    /\ updateCalls = <<>>
    /\ vlc = IdleVlc
    /\ sound = IdleSound
    /\ audio = IdleAudio

ddv_func7_DecodeMacroBlock_impl_OneBlock ==
    /\ video.pc = "block"
    /\ \E r \in {ddv_func7_DecodeMacroBlock_impl(
                     <<video.header, MDEC_END>>, 1, Eager([i \in 1..64 |-> ZeroSlot]),
                     video.isYBlock,
                     IF video.isYBlock
                     THEN after_block_decode_no_effect_q_impl(1).g_252_buffer_unk_63580C
                     ELSE after_block_decode_no_effect_q_impl(1).g_252_buffer_unk_635A0C)} :
          video' = [pc |-> "decoded", header |-> video.header, isYBlock |-> video.isYBlock,
                    slot0 |-> r.out[1], next |-> r.next, oob |-> r.oob]
    /\ UNCHANGED <<containerVars, vlc, audio, sound>>

SpecBlockHeader == InitBlockHeader /\ [][ddv_func7_DecodeMacroBlock_impl_OneBlock]_vars

\* bits hi..lo of the word h as a two's complement number of hi - lo + 1 bits
SignedBits(h, hi, lo) ==
    SeqSum(Eager([k \in 1..(hi - lo) |-> Bit(h, lo + k - 1) * Pow2(k - 1)]))
        - Bit(h, hi) * Pow2(hi - lo)

\* C20 as stated: slot 0 of a decoded block is ((isLuma ? 1 : 0) << 10) +
\* 2 * DC, DC being bits 15..10 of the header word H as a signed 6-bit value.
C20_DcFromBits15To10 ==
    video.pc = "decoded" =>
        video.slot0 = SlotOf((IF video.isYBlock THEN 1024 ELSE 0)
                                + 2 * SignedBits(video.header, 15, 10))

\* C20, amended: slot 0 of a decoded block is ((isLuma ? 1 : 0) << 10) +
\* 2 * DC, DC being bits 10..1 of the header word H as a signed 10-bit value.
C20_DcFromBits10To1 ==
    video.pc = "decoded" =>
        /\ ~video.oob
        /\ video.slot0 = SlotOf((IF video.isYBlock THEN 1024 ELSE 0)
                                   + 2 * SignedBits(video.header, 10, 1))

\* a luma block with a negative DC whose header has other bits set as well
C20_Witness ==
    /\ video.pc = "decoded"
    /\ video.isYBlock
    /\ video.header = 63488 + 1024 + 2 * 300 + 1
    /\ video.slot0 = SlotOf(1024 + 2 * (300 - 512))

(***************************************************************************)
(* Claims about the bit reader of decode_bitstream, checked under SpecVlc. *)
(***************************************************************************)
\* decode_bitstream is about to peek: 13 and 17 bits at line 196 and 201
\* (pc = "lookup"), 11 bits at lines 240, 271 and 301 when the field to
\* emit is 0xFE00 (pc = "emit")
AboutToPeek == vlc.pc \in {"lookup", "emit"}

\* C21: at every peek of 11, 13 or 17 bits the used-bit counter is in
\* 0..15: every consume before it was followed by the test of bit 4 of the
\* counter (the 11 bits consumed at entry leave it at 11, where the test
\* has nothing to do).
C21_UsedBitCountBelow16AtPeek ==
    AboutToPeek => vlc.usedBitCount \in 0..15

\* a peek after refills: the reader has moved past the first three words,
\* and both tables and a block header have been read
C21_Witness ==
    /\ vlc.pc = "lookup"
    /\ vlc.rawBitStreamPtr > 4
    /\ vlc.usedBitCount \in 1..10
    /\ \E i \in DOMAIN vlc.trace : vlc.trace[i].kind = "tbl1"
    /\ \E i \in DOMAIN vlc.trace : vlc.trace[i].kind = "header"

(***************************************************************************)
(* One residual field of the audio decoder: NextSoundBits(w) on a reader   *)
(* whose next w bits are s, then SampleMatches on the value returned, for  *)
(* every width w in 1..16 and every w-bit value s.                         *)
(***************************************************************************)
ResidualWidths == 1..16

InitResidual ==
    /\ \E w \in ResidualWidths : \E s \in 0..(Pow2(w) - 1) :
          audio = [pc |-> "residual", w |-> w, s |-> s]
    /\ stream = <<>>
    /\ masher = NewMasher
    /\ phase = "new"
    /\ thrown = NoException
    /\ updateCalls = <<>>
    /\ video = IdleVideo
    /\ vlc = IdleVlc
    /\ sound = IdleSound

\* lines 875-876 (also 881-882 and 887-888)
NextSoundBits_SampleMatches ==
    /\ audio.pc = "residual"
    /\ \E junk \in UndefinedWords :
       \E r \in {NextSoundBits(NewAudio(<<audio.s, 0, 0, 0>>, 4), audio.w, junk)} :
       \E m \in {SampleMatches(r.ret, audio.w)} :
          audio' = [pc |-> "matched", w |-> audio.w, s |-> audio.s,
                    samplePart |-> r.ret, matched |-> m.matched, sample |-> m.sample]
    /\ UNCHANGED <<containerVars, video, vlc, sound>>

SpecResidual == InitResidual /\ [][NextSoundBits_SampleMatches]_vars

\* C22: for every width w in 1..16 and every w-bit value s read: if s is
\* 1 << (w-1) the width is rejected; otherwise the residual is accepted, as
\* -(s & ~(1 << (w-1))) when bit w-1 of s is set and as s when it is clear.
C22_SentinelRejectedAtEveryWidth ==
    audio.pc = "matched" =>
        LET bitMask == Pow2(audio.w - 1)
        IN  IF audio.s = bitMask THEN ~audio.matched
            ELSE /\ audio.matched
                 /\ audio.sample = IF Bit(audio.s, audio.w - 1) = 1
                                   THEN -(audio.s - bitMask)
                                   ELSE audio.s

(***************************************************************************)
(* The predictor of decode_16bit_audio_frame, followed on frames long       *)
(* enough for three predicted samples a channel.                           *)
(***************************************************************************)
\* the frames of SpecAudio, one whose first predicted sum is negative and
\* odd, and one whose predicted sample does not fit signed 16 bits
PredictorShapes ==
    AudioShapes \cup {AudioShape(0, 4, 6, 8, <<-1, 0, 0>>, "first", 1),
                      AudioShape(0, 4, 6, 8, <<0, 0, 32767>>, "first", 1)}

InitPredictor ==
    /\ \E f \in PredictorShapes, n \in 0..MaxPredicted :
          audio = [pc |-> "start", rawFrameBuffer |-> MakeAudioFrame(f, n),
                   numSamplesPerFrame |-> n]
    /\ stream = <<>>
    /\ masher = NewMasher
    /\ phase = "new"
    /\ thrown = NoException
    /\ updateCalls = <<>>
    /\ video = IdleVideo
    /\ vlc = IdleVlc
    /\ sound = IdleSound

SpecPredictor == InitPredictor /\ [][NextAudio]_vars

\* sample n of the call in progress, as the signed 16-bit value stored
EmittedSample(n) == ToS16(audio.outBuffer[audio.outBase + n * audio.mAudioFrameSizeBytes])

\* the frame with seeds (0, 0, 0) whose residuals are all 1 at the first
\* width, without the table
FrameOfOnes(n) == MakeAudioFrame(AudioShape(0, 4, 6, 8, <<0, 0, 0>>, "first", 1), n)

\* C23: with useTableFlag = 0, the sample emitted last, s[n] with n >= 3, is
\* ((s[n-3] + 5*s[n-1] - 4*s[n-2]) >> 1) + r[n] truncated to signed 16
\* bits, r[n] being the residual the decoder is left with and the shift
\* arithmetic; the frame with seeds (0, 0, 0) and residuals 1 gives
\* s[3] = 1, s[4] = 3, s[5] = 6.
C23_PredictorWithoutTable ==
    /\ (/\ audio.pc \in {"sample", "return"}
        /\ audio.useTableFlag = 0
        /\ audio.counter >= 1) =>
           LET n == audio.counter + 2
           IN  EmittedSample(n)
                 = ToS16(((EmittedSample(n - 3) + 5 * EmittedSample(n - 1)
                              - 4 * EmittedSample(n - 2)) \div 2) + audio.ret)
    /\ (/\ audio.pc = "return"
        /\ audio.numSamplesPerFrame = 6
        /\ audio.rawFrameBuffer = FrameOfOnes(6)) =>
           /\ EmittedSample(3) = 1
           /\ EmittedSample(4) = 3
           /\ EmittedSample(5) = 6

\* the frame of ones decoded to its sixth sample, and elsewhere a negative
\* odd sum halved
C23_Witness ==
    /\ audio.pc = "return"
    /\ audio.useTableFlag = 0
    /\ audio.numSamplesPerFrame = 6
    /\ audio.rawFrameBuffer = FrameOfOnes(6)
    /\ audio.counter = 3
    /\ EmittedSample(5) = 6

(***************************************************************************)
(* The two passes of decode_audio_frame, checked under SpecAudio.          *)
(***************************************************************************)
\* bit i of the raw frame, the least significant bit of a word first
RawFrameBit(i) == Bit(audio.rawFrameBuffer[(i \div 16) + 1], i % 16)

\* the 16-bit field of the raw frame that starts at bit pos, as an s16
RawFrameField(pos) ==
    ToS16(SeqSum(Eager([j \in 1..16 |-> RawFrameBit(pos + j - 1) * Pow2(j - 1)])))

\* the parity of the positions a pass writes
PassParity(isLast) == IF isLast THEN 1 ELSE 0

\* C24: decode_audio_frame decodes the frame twice from one continuous bit
\* stream: the first pass (isLast = false) writes only even indices of the
\* output, the second (isLast = true) only odd ones, no index is written by
\* both, and the second pass reads from the byte-aligned bit position at
\* which the first one stopped.
C24_TwoPassesOneStream ==
    audio.pc \in {"seeds", "sample", "return", "done"} =>
        /\ Len(audio.calls) <= 2
        /\ \A i \in DOMAIN audio.calls :
              /\ audio.calls[i].isLast = (i = 2)
              /\ \A k \in DOMAIN audio.calls[i].writes :
                    audio.calls[i].writes[k] % 2 = PassParity(audio.calls[i].isLast)
        /\ audio.isLast = (Len(audio.calls) >= 1)
        /\ \A k \in DOMAIN audio.writes : audio.writes[k] % 2 = PassParity(audio.isLast)
        /\ Len(audio.calls) = 2 =>
              \A k \in DOMAIN audio.calls[1].writes, l \in DOMAIN audio.calls[2].writes :
                  audio.calls[1].writes[k] # audio.calls[2].writes[l]
        /\ Len(audio.calls) >= 1 =>
              LET stop == audio.calls[1].consumed
              IN  /\ stop % 8 = 0
                  /\ BitsTaken(audio.calls[1].mAudioFrameDataPtr, audio.calls[1].mUsedBits)
                        = stop
                  /\ (/\ audio.pc \in {"sample", "return"}
                      /\ Len(audio.calls) = 1
                      /\ stop + 64 <= 16 * Len(audio.rawFrameBuffer)) =>
                         /\ audio.useTableFlag = RawFrameField(stop)
                         /\ audio.firstWord = RawFrameField(stop + 16)
                         /\ audio.secondWord = RawFrameField(stop + 32)
                         /\ audio.thirdWord = RawFrameField(stop + 48)

\* both passes done, the first having stopped off a 16-bit boundary, and the
\* second having read a header other than the first pass's
C24_Witness ==
    /\ audio.pc = "done"
    /\ Len(audio.calls) = 2
    /\ audio.numSamplesPerFrame > 3
    /\ audio.calls[1].consumed % 16 = 8
    /\ audio.calls[1].usedBefore % 8 # 0
    /\ Len(audio.calls[1].writes) = audio.numSamplesPerFrame
    /\ Len(audio.calls[2].writes) = audio.numSamplesPerFrame
    /\ audio.calls[2].consumed > audio.calls[1].consumed
    /\ audio.useTableFlag = RawFrameField(audio.calls[1].consumed)

(***************************************************************************)
(* ddv_func7_DecodeMacroBlock_impl on one block at a time: a header word,  *)
(* up to MaxBlockWords run-level words and the end-of-block word, or a     *)
(* block that fills the 63 positions, decoded into a buffer whose 64 slots *)
(* hold what an earlier block left there.                                  *)
(***************************************************************************)
\* the runs of the run-level words after the first
LaterRuns == {0, 2, 20, 61}

RECURSIVE RunsOfLen(_)
RunsOfLen(n) ==
    IF n = 0 THEN {<<>>}
    ELSE {Append(b, r) : b \in RunsOfLen(n - 1),
                         r \in IF n = 1 THEN 0..62 ELSE LaterRuns}

\* the runs of a block whose last coefficient is at zig-zag rank 63
FullBlockRuns == <<6, 6, 6, 6, 6, 6, 6, 6, 6>>

BlockRuns ==
    UNION {RunsOfLen(n) : n \in 0..MaxBlockWords} \cup {FullBlockRuns}

\* the words of the block with the given header, runs and first level; the
\* block that fills the 63 positions has no end-of-block word
OneBlockWords(header, runs, level) ==
    <<header>>
    \o [j \in 1..Len(runs) |-> RunLevel(runs[j], IF j % 2 = 1 THEN level + j - 1 ELSE -level - j)]
    \o (IF runs = FullBlockRuns THEN <<>> ELSE <<MDEC_END>>)

\* what the 64 slots hold before the call
StaleBlocks ==
    {Eager([i \in 1..64 |-> s]) : s \in StaleSlots}
    \cup {Eager([i \in 1..64 |-> [hi |-> (640 * i) % 65536, lo |-> i]])}

InitBlock ==
    /\ \E header \in {600, 601}, runs \in BlockRuns, level \in {3, -200},
          isYBlock \in BOOLEAN, before \in StaleBlocks :
          video = [pc |-> "block", words |-> OneBlockWords(header, runs, level),
                   isYBlock |-> isYBlock, before |-> before]
    /\ stream = <<>>
    /\ masher = NewMasher
    /\ phase = "new"
    /\ thrown = NoException
    /\ updateCalls = <<>>
    /\ vlc = IdleVlc
    /\ sound = IdleSound
    /\ audio = IdleAudio

\* the dequantization array line 402 selects, after the setup with scale 1
BlockQuant(isYBlock) ==
    IF isYBlock
    THEN after_block_decode_no_effect_q_impl(1).g_252_buffer_unk_63580C
    ELSE after_block_decode_no_effect_q_impl(1).g_252_buffer_unk_635A0C

(***************************************************************************)
(* The accesses of ddv_func7_DecodeMacroBlock_impl on a block: the indices *)
(* it reads g_index_look_up_table at, the slots of pOutput it writes, and  *)
(* the entries of the dequantization array it reads.  An index past the    *)
(* table reads memory that is not the table's; the slot it gives is shown  *)
(* as OutsideSlot.                                                         *)
(***************************************************************************)
OutsideSlot == 65535

NoAccesses == [zigzag |-> {}, slots |-> {}, cursor |-> {}]

JoinAccesses(a, b) ==
    [zigzag |-> a.zigzag \cup b.zigzag, slots |-> a.slots \cup b.slots,
     cursor |-> a.cursor \cup b.cursor]

\* pOutput[g_index_look_up_table[i]]
SlotAt(i) == IF i <= 63 THEN At(g_index_look_up_table, i) ELSE OutsideSlot

CursorIndex_Mutant(tbase, q_scale) == tbase + q_scale + 2

\* pTable[q_scale], pTable being tbase entries past entry 1 of the array
\* (lines 402, 435 and 474)
CursorIndex(tbase, q_scale) == 1 + tbase + q_scale

\* lines 486-515
TailAccesses(counter) ==
    IF counter = 0 THEN [NoAccesses EXCEPT !.slots = 1..63]
    ELSE LET first == counter + 1
             aligned == 4 * ((first + 3) \div 4)
             groups == {c \in aligned..63 : c % 4 = 0}
         IN  [zigzag |-> groups,
              slots |-> {At(RL_ZSCAN_MATRIX_2, c) : c \in first..(aligned - 1)}
                        \cup {At(RL_ZSCAN_MATRIX_2, c) : c \in groups}
                        \cup {At(g_index_look_up_table, c) : c \in groups}
                        \cup {At(g_block_related_2_dword_42B0CC, c) : c \in groups}
                        \cup {At(g_block_related_3_dword_42B0D0, c) : c \in groups},
              cursor |-> {}]

\* lines 448-484
RECURSIVE RunSkipAccesses(_, _, _)
RunSkipAccesses(words, p, counter) ==
    IF ~InWords(words, p) THEN NoAccesses
    ELSE IF words[p] = MDEC_END THEN TailAccesses(counter)
    ELSE LET q_scale == words[p] \div 1024
             here == [zigzag |-> counter..(counter + q_scale),
                      slots |-> {SlotAt(c) : c \in counter..(counter + q_scale)},
                      cursor |-> {CursorIndex(counter, q_scale)}]
         IN  IF counter + q_scale + 1 >= 63 THEN here
             ELSE JoinAccesses(here, RunSkipAccesses(words, p + 1, counter + q_scale + 1))

\* lines 418-442
RECURSIVE IncrementalAccesses(_, _, _)
IncrementalAccesses(words, p, counter) ==
    IF ~InWords(words, p) THEN NoAccesses
    ELSE IF words[p] = MDEC_END THEN NoAccesses
    ELSE LET q_scale == words[p] \div 1024
             here == [zigzag |-> {counter + q_scale},
                      slots |-> {SlotAt(counter + q_scale)},
                      cursor |-> {CursorIndex(counter, q_scale)}]
         IN  IF counter + q_scale + 1 >= 63 THEN here
             ELSE JoinAccesses(here, IncrementalAccesses(words, p + 1, counter + q_scale + 1))

\* lines 399-519, for a block that starts at the first word: slot 0 is
\* written from the header
ddv_func7_DecodeMacroBlock_impl_Accesses(words) ==
    JoinAccesses([NoAccesses EXCEPT !.slots = {0}],
                 IF words[1] % 2 = 1 THEN IncrementalAccesses(words, 2, 0)
                 ELSE RunSkipAccesses(words, 2, 0))

ddv_func7_DecodeMacroBlock_impl_Block ==
    /\ video.pc = "block"
    /\ \E r \in {ddv_func7_DecodeMacroBlock_impl(video.words, 1, video.before,
                                                 video.isYBlock,
                                                 BlockQuant(video.isYBlock))} :
          video' = [pc |-> "decoded", words |-> video.words, isYBlock |-> video.isYBlock,
                    before |-> video.before, out |-> r.out, next |-> r.next,
                    oob |-> r.oob,
                    accesses |-> ddv_func7_DecodeMacroBlock_impl_Accesses(video.words)]
    /\ UNCHANGED <<containerVars, vlc, audio, sound>>

SpecBlock == InitBlock /\ [][ddv_func7_DecodeMacroBlock_impl_Block]_vars

\* the run-level words of the block: those after the header, up to the
\* end-of-block word
RunLevelWords == SelectSeq(SubSeq(video.words, 2, Len(video.words)), LAMBDA w : w # MDEC_END)

\* the zig-zag rank, 1..63, of the coefficient of run-level word j: one more
\* than the runs and coefficients before it
RECURSIVE ZigZagRank(_)
ZigZagRank(j) ==
    IF j = 0 THEN 0 ELSE ZigZagRank(j - 1) + (RunLevelWords[j] \div 1024) + 1

\* every run-level word of the block addresses one of the 63 AC positions
BlockInRange == \A j \in DOMAIN RunLevelWords : ZigZagRank(j) <= 63

\* the slots the block's run-level words address
AddressedSlots == {At(RL_ZSCAN_MATRIX_2, ZigZagRank(j)) : j \in DOMAIN RunLevelWords}

RunSkipDecoded == video.pc = "decoded" /\ video.words[1] % 2 = 0 /\ BlockInRange

\* C25: after a block is decoded in the run-skip branch (bit 0 of the header
\* clear), every slot 1..63 that none of the block's run-level words
\* addresses is zero, so the 64 slots are what they would be had the buffer
\* been all zero before.
C25_RunSkipLeavesNoStaleSlot ==
    RunSkipDecoded =>
        /\ ~video.oob
        /\ \A slot \in 1..63 :
              slot \notin AddressedSlots => video.out[slot + 1] = ZeroSlot
        /\ \A before \in StaleBlocks :
              video.out = ddv_func7_DecodeMacroBlock_impl(
                              video.words, 1, before, video.isYBlock,
                              BlockQuant(video.isYBlock)).out

\* a block of two coefficients, the second at zig-zag rank 62, decoded over
\* a buffer of nonzero slots: the tail is one single slot
C25_Witness ==
    /\ RunSkipDecoded
    /\ Len(RunLevelWords) = 2
    /\ ZigZagRank(2) = 62
    /\ ZigZagRank(1) = 41
    /\ video.before[64] # ZeroSlot
    /\ video.before[2] # ZeroSlot
    /\ video.out[64] = ZeroSlot
    /\ video.out[2] = ZeroSlot
    /\ video.out[At(RL_ZSCAN_MATRIX_2, 62) + 1] # ZeroSlot

IncrementalDecoded == video.pc = "decoded" /\ video.words[1] % 2 = 1 /\ BlockInRange

\* the slot run-level word j addresses, and the word's low ten bits
AddressedSlot(j) == At(RL_ZSCAN_MATRIX_2, ZigZagRank(j))
DeltaBits(j) == RunLevelWords[j] % 1024

\* the entry of the dequantization array the cursor is at for word j
CursorEntry(j) == At(BlockQuant(video.isYBlock), ZigZagRank(j))

UnaddressedKept ==
    \A slot \in 1..63 :
        slot \notin AddressedSlots => video.out[slot + 1] = video.before[slot + 1]

\* C26 as stated: in the incremental branch the slot a run-level word M
\* addresses keeps its high 16 bits and receives ((Q[q] * delta + 4) >> 3)
\* in its low 16 bits, delta being M[9:0] sign-extended; the slots no word
\* addresses keep their value.
C26_HighHalfKept ==
    IncrementalDecoded =>
        /\ \A j \in DOMAIN RunLevelWords :
              /\ video.out[AddressedSlot(j) + 1].hi = video.before[AddressedSlot(j) + 1].hi
              /\ video.out[AddressedSlot(j) + 1].lo
                    = ((CursorEntry(j) * SignedBits(DeltaBits(j), 9, 0) + 4) \div 8) % 65536
        /\ UnaddressedKept

\* C26, amended: in the incremental branch the slot a run-level word M
\* addresses has M[9:0] << 6 added to its high 16 bits (modulo 2^16) and
\* receives ((Q[q] * level + 4) >> 3) in its low 16 bits, level being the top
\* ten bits of the new high half, sign-extended; the slots 1..63 no word
\* addresses keep their value.
C26_HighHalfAccumulates ==
    IncrementalDecoded =>
        /\ ~video.oob
        /\ \A j \in DOMAIN RunLevelWords :
              LET old == video.before[AddressedSlot(j) + 1]
                  new == video.out[AddressedSlot(j) + 1]
              IN  /\ new.hi = (old.hi + DeltaBits(j) * 64) % 65536
                  /\ new.lo = ((CursorEntry(j) * SignedBits(new.hi, 15, 6) + 4) \div 8) % 65536
        /\ UnaddressedKept

\* two words decoded over slots whose high halves are not zero: the level
\* used is not the word's own
C26_Witness ==
    /\ IncrementalDecoded
    /\ Len(RunLevelWords) = 2
    /\ ZigZagRank(1) = 3
    /\ DeltaBits(1) = 3
    /\ video.before[AddressedSlot(1) + 1].hi = 65472
    /\ video.out[AddressedSlot(1) + 1].hi = 128
    /\ video.out[AddressedSlot(1) + 1].lo = ((CursorEntry(1) * 2 + 4) \div 8) % 65536
    /\ video.out[2] = video.before[2]

(***************************************************************************)
(* idct on one block of packed slots, and on a second block whose slots    *)
(* have the same low halves and other high halves.  The blocks are such   *)
(* that every sum of half_idct fits an int32_t: one coefficient of any     *)
(* 16-bit value, or 64 small ones.                                         *)
(***************************************************************************)
DcValues == ((-40)..40) \cup {-32768, -32767, -1000, 1000, 32767}

\* the low halves of the 64 slots of the blocks idct is run on
CoefficientBlocks ==
    {Eager([i \in 1..64 |-> IF i = 1 THEN d % 65536 ELSE 0]) : d \in DcValues}
    \cup {Eager([i \in 1..64 |-> IF i = p THEN v % 65536 ELSE 0]) :
              p \in 2..64, v \in {5, -300, 32767, -32768}}
    \cup {Eager([i \in 1..64 |-> (((i * m) % 200) - 100) % 65536]) : m \in {37, 91}}

\* the high halves of the 64 slots
HighHalves ==
    {Eager([i \in 1..64 |-> 0]), Eager([i \in 1..64 |-> 65472]),
     Eager([i \in 1..64 |-> (640 * i + 321) % 65536])}

PackSlots(highs, lows) == Eager([i \in 1..64 |-> [hi |-> highs[i], lo |-> lows[i]]])

InitIdct ==
    /\ \E lows \in CoefficientBlocks, highs \in HighHalves, others \in HighHalves :
          /\ highs # others
          /\ video = [pc |-> "coefficients", slots |-> PackSlots(highs, lows),
                      others |-> PackSlots(others, lows)]
    /\ stream = <<>>
    /\ masher = NewMasher
    /\ phase = "new"
    /\ thrown = NoException
    /\ updateCalls = <<>>
    /\ vlc = IdleVlc
    /\ sound = IdleSound
    /\ audio = IdleAudio

idct_Blocks ==
    /\ video.pc = "coefficients"
    /\ video' = [pc |-> "samples", slots |-> video.slots, others |-> video.others,
                 pDestination |-> idct(video.slots),
                 pDestinationOthers |-> idct(video.others)]
    /\ UNCHANGED <<containerVars, vlc, audio, sound>>

SpecIdct == InitIdct /\ [][idct_Blocks]_vars

\* C27: two blocks whose slots agree in their low 16 bits and differ in
\* their high 16 bits give the same 64 idct outputs.
C27_IdctIgnoresHighHalves ==
    video.pc = "samples" =>
        ((\A i \in 1..64 : video.slots[i].lo = video.others[i].lo)
            => video.pDestination = video.pDestinationOthers)

\* a block with coefficients in every slot, its high halves all different
\* from the other block's
C27_Witness ==
    /\ video.pc = "samples"
    /\ \A i \in 1..64 : /\ video.slots[i].lo = video.others[i].lo
                        /\ video.slots[i].hi # video.others[i].hi
                        /\ video.slots[i].lo # 0
    /\ video.pDestination = video.pDestinationOthers
    /\ \E i \in 1..64 : video.pDestination[i] # video.pDestination[1]

\* the multipliers of s0, s2, s4, s6 in E0..E3 and of s1, s3, s5, s7 in
\* O0..O3
EvenMultipliers ==
    << <<8192, 10703, 8192, 4433>>,
       <<8192, 4433, -8192, -10704>>,
       <<8192, -4433, -8192, 10704>>,
       <<8192, -10703, 8192, -4433>> >>
OddMultipliers ==
    << <<11363, 9633, 6437, 2260>>,
       <<9633, -2259, -11362, -6436>>,
       <<6437, -11362, 2261, 9633>>,
       <<2260, -6436, 9633, -11363>> >>

\* E_k and O_k of the line s0..s7, given as s[1]..s[8]
EvenPart(k, s) == SeqSum(Eager([j \in 1..4 |-> EvenMultipliers[k + 1][j] * s[2 * j - 1]]))
OddPart(k, s) == SeqSum(Eager([j \in 1..4 |-> OddMultipliers[k + 1][j] * s[2 * j]]))

\* floor(x / 2^shift)
FloorShift(x, shift) ==
    IF x >= 0 THEN x \div Pow2(shift) ELSE -(((-x) + Pow2(shift) - 1) \div Pow2(shift))

\* d[m], m = 0..7, of the line s
LineOutput(m, s, shift) ==
    IF m <= 3 THEN FloorShift(EvenPart(m, s) + OddPart(m, s), shift)
    ELSE FloorShift(EvenPart(7 - m, s) - OddPart(7 - m, s), shift)

\* the 64 entries after a pass: line i takes the entries k * pitch + i *
\* stride, k = 0..7, and writes its eight outputs to the same entries
PassOutput(src, pitch, stride, shift) ==
    Eager([e \in 1..64 |->
        LET i == ((e - 1) \div stride) % 8
            m == ((e - 1) \div pitch) % 8
        IN  LineOutput(m, Eager([k \in 1..8 |-> src[(k - 1) * pitch + i * stride + 1]]),
                       shift)])

LowHalvesSignExtended(slots) ==
    Eager([i \in 1..64 |-> IF slots[i].lo >= 32768 THEN slots[i].lo - 65536 ELSE slots[i].lo])

IsDcOnly(slots) == \A i \in 2..64 : slots[i].lo = 0

\* C28: idct is pass 1 (pitch 8, stride 1, shift 11) followed by pass 2
\* (pitch 1, stride 8, shift 18) over the sign-extended low halves, each
\* line giving d[k] = (E_k + O_k) >> shift and d[7-k] = (E_k - O_k) >> shift,
\* k = 0..3, with the twelve multipliers; a block whose only nonzero input is
\* DC = d gives 64 samples equal to floor(d / 8).
C28_TwoPassesOfEvenOddLines ==
    video.pc = "samples" =>
        /\ video.pDestination
              = PassOutput(PassOutput(LowHalvesSignExtended(video.slots), 8, 1, 11),
                           1, 8, 18)
        /\ IsDcOnly(video.slots) =>
              \A i \in 1..64 :
                  video.pDestination[i]
                     = FloorShift(LowHalvesSignExtended(video.slots)[1], 3)

\* a DC of -9, which floors to -2, and elsewhere blocks with every input set
C28_Witness ==
    /\ video.pc = "samples"
    /\ IsDcOnly(video.slots)
    /\ video.slots[1].lo = 65536 - 9
    /\ \A i \in 1..64 : video.pDestination[i] = -2

(***************************************************************************)
(* The order of the macroblocks and of their blocks, checked under         *)
(* SpecVideo.                                                              *)
(***************************************************************************)
\* the position after the words of a block whose run-level words start at p,
\* counter positions of the block being filled already: the word after the
\* end-of-block word, or after the word that fills position 63
RECURSIVE AfterRunLevelWords(_, _)
AfterRunLevelWords(p, counter) ==
    IF p > Len(video.words) THEN p
    ELSE IF video.words[p] = MDEC_END THEN p + 1
    ELSE IF counter + (video.words[p] \div 1024) + 1 >= 63 THEN p + 1
    ELSE AfterRunLevelWords(p + 1, counter + (video.words[p] \div 1024) + 1)

\* where block n of the frame (counted from 0) starts, when every block
\* starts where the one before it ended
RECURSIVE BlockStart(_)
BlockStart(n) ==
    IF n = 0 THEN 1
    ELSE AfterRunLevelWords(SkipEndOfBlocks(video.words, BlockStart(n - 1)) + 1, 0)

\* macroblock k of the frame (counted from 0) when columns are the outer loop
ColumnOf(k) == k \div video.mNumMacroblocksY
RowOf(k) == k % video.mNumMacroblocksY

\* C29: ParseVideoFrame visits the macroblocks column by column (the column
\* index is the outer loop), and for each decodes six consecutive blocks in
\* the order Cr, Cb, Y1, Y2, Y3, Y4, the first two with the chroma
\* dequantization array and the last four with the luma array, each block
\* starting where the previous block's words ended.
C29_ColumnMajorSixBlocks ==
    (VideoRunning /\ video.macroblocks >= 1 /\ ~video.oob) =>
        LET last == video.macroblocks - 1
            xoff == ColumnOf(last) * kMacroBlockWidth
            yoff == RowOf(last) * kMacroBlockHeight
            before == Eager([i \in 1..64 |-> video.stale])
        IN  /\ IF video.pc = "done"
               THEN video.macroblocks = video.mNumMacroblocksX * video.mNumMacroblocksY
               ELSE /\ video.xBlock = ColumnOf(video.macroblocks)
                    /\ video.yBlock = RowOf(video.macroblocks)
            /\ xoff < video.mWidth /\ yoff < video.mHeight
            /\ video.pixelBuffer[SetElementIndex(xoff, yoff, video.mWidth)]
                  = PixelOf(video.blocks, 0, 0)
            /\ \A k \in 0..((video.mNumMacroblocksX * video.mNumMacroblocksY) - 1) :
                  <<ColumnOf(k) * kMacroBlockWidth, RowOf(k) * kMacroBlockHeight>>
                      \in DOMAIN video.writeCount <=> k <= last
            /\ \A j \in 1..kNumberOfBlocks :
                  /\ video.slots[j]
                        = ddv_func7_DecodeMacroBlock_impl(
                              video.words, BlockStart(kNumberOfBlocks * last + j - 1), before,
                              j >= 3,
                              IF j >= 3 THEN video.quant.g_252_buffer_unk_63580C
                              ELSE video.quant.g_252_buffer_unk_635A0C).out
                  /\ video.blocks[BlockNames[j]] = idct(video.slots[j])
            /\ video.bitstreamCurPos = BlockStart(kNumberOfBlocks * video.macroblocks)

\* the second macroblock of a picture of two columns and two rows, whose
\* blocks have coefficients: it is the one below the first
C29_Witness ==
    /\ video.pc = "loop"
    /\ video.mNumMacroblocksX = 2
    /\ video.mNumMacroblocksY = 2
    /\ video.macroblocks = 2
    /\ video.quantScale = 2
    /\ ~video.oob
    /\ video.bitstreamCurPos > 13
    /\ <<0, 16>> \in DOMAIN video.writeCount
    /\ <<16, 0>> \notin DOMAIN video.writeCount
    /\ video.slots[2] # video.slots[3]
    /\ \E i \in 2..64 : video.slots[3][i].lo # 0

(***************************************************************************)
(* The samples behind the pixels of a tile, checked under SpecVideo.       *)
(***************************************************************************)
\* the luma block of the quadrant of pixel (x, y) of the tile: Y1 top left,
\* Y2 top right, Y3 bottom left, Y4 bottom right
QuadrantBlock(x, y) ==
    IF y < 8 THEN (IF x < 8 THEN "Y1_block" ELSE "Y2_block")
    ELSE (IF x < 8 THEN "Y3_block" ELSE "Y4_block")

\* the pixel value of the samples (Y, Cb, Cr), lines 649-667
PixelOfSamples(Y, Cb, Cr) ==
    PackPixel(Clamp(10000 * Y + 14020 * Cb),
              Clamp(10000 * Y - 3437 * Cr - 7143 * Cb),
              Clamp(10000 * Y + 17720 * Cr))

\* the pixels of the tile of chroma sample (cx, cy)
PixelsOfChromaSample(cx, cy) ==
    {<<2 * cx, 2 * cy>>, <<2 * cx + 1, 2 * cy>>, <<2 * cx, 2 * cy + 1>>,
     <<2 * cx + 1, 2 * cy + 1>>}

\* C30: in the tile blitted last, the luma of pixel (x, y) is sample
\* (y mod 8) * 8 + (x mod 8) of Y1, Y2, Y3 or Y4 by the quadrant of (x, y),
\* and the chroma of the four pixels (2cx, 2cy) .. (2cx + 1, 2cy + 1), and of
\* no other pixel, is sample (cx, cy) of Cr and Cb.
C30_QuadrantsAndChromaTiles ==
    (VideoRunning /\ video.macroblocks >= 1) =>
        LET xoff == ColumnOf(video.macroblocks - 1) * kMacroBlockWidth
            yoff == RowOf(video.macroblocks - 1) * kMacroBlockHeight
        IN  \A cx \in 0..7, cy \in 0..7 :
            \A x \in 0..15, y \in 0..15 :
                (/\ <<x, y>> \in PixelsOfChromaSample(cx, cy)
                    <=> (x \div 2 = cx /\ y \div 2 = cy)
                 /\ (/\ <<x, y>> \in PixelsOfChromaSample(cx, cy)
                     /\ xoff + x < video.mWidth
                     /\ yoff + y < video.mHeight) =>
                        video.pixelBuffer[video.mWidth * (yoff + y) + xoff + x]
                           = PixelOfSamples(
                                 video.blocks[QuadrantBlock(x, y)][(y % 8) * 8 + (x % 8) + 1],
                                 video.blocks.Cb_block[cy * 8 + cx + 1],
                                 video.blocks.Cr_block[cy * 8 + cx + 1]))

\* a whole tile whose luma differs between the quadrants and whose chroma
\* differs between neighbouring samples
C30_Witness ==
    /\ VideoRunning
    /\ video.macroblocks >= 1
    /\ video.mWidth >= 16
    /\ video.mHeight >= 16
    /\ video.blocks.Y2_block[2] # video.blocks.Y3_block[2]
    /\ video.blocks.Y1_block[2] # video.blocks.Y1_block[9]
    /\ video.blocks.Cb_block[1] # video.blocks.Cb_block[2]
    /\ video.blocks.Cr_block[1] # video.blocks.Cr_block[9]
    /\ video.pixelBuffer[video.mWidth * 0 + 9] # video.pixelBuffer[video.mWidth * 8 + 1]
    /\ video.pixelBuffer[0] \notin {0, 16777215}

(***************************************************************************)
(* The audio bit reader one call at a time: SetupAudioDecodePtrs on a raw  *)
(* frame, then NextSoundBits calls of any width 1..16 and                  *)
(* SndRelated_sub_409650 calls, in any order.                              *)
(***************************************************************************)
ReaderFrames ==
    {<<42435, 3855, 4660, 65535, 32769, 32343, 21845, 1>>,
     <<65535, 65535, 0, 65535, 0, 43690, 65535, 32768>>}

FieldWidths == 1..16

InitReader ==
    /\ \E raw \in ReaderFrames :
          audio = [f \in DOMAIN NewAudio(raw, 0) \cup {"reads", "numBits", "before"} |->
                      IF f = "pc" THEN "reader"
                      ELSE IF f = "reads" THEN 0
                      ELSE IF f = "numBits" THEN 0
                      ELSE IF f = "before" THEN [mUsedBits |-> 0, mAudioFrameDataPtr |-> 0,
                                                 consumed |-> 0]
                      ELSE NewAudio(raw, 0)[f]]
    /\ stream = <<>>
    /\ masher = NewMasher
    /\ phase = "new"
    /\ thrown = NoException
    /\ updateCalls = <<>>
    /\ video = IdleVideo
    /\ vlc = IdleVlc
    /\ sound = IdleSound

\* the reader's state before the call that is being made
ReaderBefore ==
    [mUsedBits |-> audio.mUsedBits, mAudioFrameDataPtr |-> audio.mAudioFrameDataPtr,
     consumed |-> audio.consumed]

NextSoundBits_Call ==
    /\ audio.pc = "reader"
    /\ audio.reads < MaxReads
    /\ \E numBits \in FieldWidths, junk \in UndefinedWords :
          audio' = [NextSoundBits(audio, numBits, junk) EXCEPT
                       !.reads = @ + 1, !.numBits = numBits, !.before = ReaderBefore]
    /\ UNCHANGED <<containerVars, video, vlc, sound>>

SndRelated_sub_409650_Call ==
    /\ audio.pc = "reader"
    /\ audio.reads >= 1
    /\ audio.numBits # 0
    /\ \E junk \in UndefinedWords :
          audio' = [SndRelated_sub_409650(audio, junk) EXCEPT
                       !.numBits = 0, !.before = ReaderBefore]
    /\ UNCHANGED <<containerVars, video, vlc, sound>>

NextReader == NextSoundBits_Call \/ SndRelated_sub_409650_Call

SpecReader == InitReader /\ [][NextReader]_vars

\* the numBits bits of the raw frame from bit pos on, as a number
RawFrameBits(pos, numBits) ==
    SeqSum(Eager([j \in 1..numBits |-> RawFrameBit(pos + j - 1) * Pow2(j - 1)]))

\* C31: with every width in 1..16, mUsedBits is in 17..32 after
\* SetupAudioDecodePtrs and after every NextSoundBits call, every call
\* fetches at most one 16-bit word, and the field returned is made of bits
\* that were loaded: the next numBits bits of the raw frame.
C31_BufferedBitsStayAbove16 ==
    audio.pc = "reader" =>
        /\ audio.mUsedBits \in 17..32
        /\ audio.reads = 0 => audio.mUsedBits = 32 /\ audio.mAudioFrameDataPtr = 2
        /\ audio.reads >= 1 =>
              /\ audio.mAudioFrameDataPtr - audio.before.mAudioFrameDataPtr \in {0, 1}
              /\ audio.overreads = 0
              /\ BitsTaken(audio.mAudioFrameDataPtr, audio.mUsedBits) = audio.consumed
              /\ audio.numBits # 0 =>
                    /\ audio.numBits <= audio.before.mUsedBits
                    /\ audio.consumed = audio.before.consumed + audio.numBits
                    /\ audio.ret % Pow2(audio.numBits)
                          = RawFrameBits(audio.before.consumed, audio.numBits)

\* a 16-bit field read with 17 bits buffered, which fetches a word, after a
\* read that fetched none
C31_Witness ==
    /\ audio.pc = "reader"
    /\ audio.reads = 3
    /\ audio.numBits = 16
    /\ audio.before.mUsedBits = 17
    /\ audio.mUsedBits = 17
    /\ audio.mAudioFrameDataPtr = audio.before.mAudioFrameDataPtr + 1
    /\ audio.ret # 0

(***************************************************************************)
(* The residual of one sample, checked under SpecPredictor on the steps   *)
(* of the sample loop.                                                     *)
(***************************************************************************)
\* does SampleMatches reject the numBits bits of the raw frame at bit pos
RejectedAt(pos, numBits) ==
    ~SampleMatches(ToS16(RawFrameBits(pos, numBits)), numBits).matched

\* the three residual fields of the raw frame from bit pos on are all rejected
AllRejectedAt(pos) ==
    /\ RejectedAt(pos, audio.firstWord)
    /\ RejectedAt(pos + audio.firstWord, audio.secondWord)
    /\ RejectedAt(pos + audio.firstWord + audio.secondWord, audio.thirdWord)

\* C32: a pass of the sample loop emits exactly one sample; it takes the
\* bits of the first width only when that field is accepted, of the first
\* two when the first is rejected and the second accepted, and of all three
\* otherwise; when all three are rejected the residual is
\* 1 << (thirdWord - 1).
C32_ResidualBitsBySentinels ==
    [][(audio.pc = "sample" /\ audio'.pc \in {"sample", "return"}
            /\ audio'.overreads = 0) =>
          LET pos == audio.consumed
              taken == audio'.consumed - audio.consumed
              w1 == audio.firstWord
              w2 == audio.secondWord
              w3 == audio.thirdWord
          IN  /\ audio'.writes = Append(audio.writes, audio.outPtr)
              /\ audio'.counter = audio.counter + 1
              /\ taken = IF ~RejectedAt(pos, w1) THEN w1
                         ELSE IF ~RejectedAt(pos + w1, w2) THEN w1 + w2
                         ELSE w1 + w2 + w3
              /\ AllRejectedAt(pos) => audio'.ret = Pow2(w3 - 1)]_vars

\* a sample whose three fields were all rejected has been emitted
C32_Witness ==
    /\ audio.pc \in {"sample", "return"}
    /\ audio.counter >= 1
    /\ audio.overreads = 0
    /\ audio.firstWord # audio.thirdWord
    /\ audio.consumed >= 112 + audio.firstWord + audio.secondWord + audio.thirdWord
    /\ AllRejectedAt(audio.consumed - (audio.firstWord + audio.secondWord + audio.thirdWord))
    /\ audio.ret = Pow2(audio.thirdWord - 1)
    /\ Len(audio.writes) = audio.counter + 3

(***************************************************************************)
(* The accesses of a block whose run-level words stay within the 63 AC     *)
(* positions, checked under SpecBlock.                                     *)
(***************************************************************************)
\* C33: for a block whose run-level words have a sum of (run + 1) of at most
\* 63, in both branches g_index_look_up_table is read at indices <= 62 only
\* (never at the entry 0x98E), every slot written is one of slots 0..63, and
\* the dequantization array is read at the entries (zig-zag position + 1)
\* of the block's coefficients, all <= 63.
C33_InRangeBlockStaysInBuffer ==
    (video.pc = "decoded" /\ BlockInRange) =>
        /\ video.accesses.zigzag \subseteq 0..62
        /\ video.accesses.slots \subseteq 0..63
        /\ video.accesses.cursor = {ZigZagRank(j) : j \in DOMAIN RunLevelWords}
        /\ video.accesses.cursor \subseteq 1..63
        /\ ~video.oob

\* a run-skip block whose second coefficient is at zig-zag rank 63, the last
\* entry of the table before the 0x98E one
C33_Witness ==
    /\ video.pc = "decoded"
    /\ BlockInRange
    /\ video.words[1] % 2 = 0
    /\ Len(RunLevelWords) = 2
    /\ ZigZagRank(2) = 63
    /\ 62 \in video.accesses.zigzag
    /\ 63 \in video.accesses.cursor
    /\ 63 \in video.accesses.slots

(***************************************************************************)
(* Sound (sound.cpp): the music theme state machine and the players.       *)
(* The locator, the themes and the sound cache are other classes; what     *)
(* they answer is an input of the handlers, and the cache is busy from a   *)
(* CacheSound call until its loader has finished.                          *)
(***************************************************************************)
MaxThemeRequests == 2
MaxCacheTasks == 1
MaxSoundPlayers == 1

NoTheme == "nullptr"
NoEntry == "nullptr"
\* a player is known by the theme entry it plays; this one is the null pointer
NoPlayer == [theme |-> NoTheme, entry |-> NoEntry]

\* the themes the locator knows, and the entries of each
SoundThemes == {"A", "B"}
ThemeNames == SoundThemes \cup {"missing"}
ThemeEntries(theme) == IF theme = "A" THEN {"AMBIANCE", "BASE_LINE"} ELSE {"BASE_LINE"}
LocateSoundTheme(themeName) == IF themeName \in SoundThemes THEN themeName ELSE NoTheme

\* the events of kMusicEvents the model calls with
MusicEvents == {"AMBIANCE", "BASE_LINE"}

NewSound ==
    [pc |-> "sound", mState |-> "eIdle", mThemeToLoad |-> NoTheme, mActiveTheme |-> NoTheme,
     mEventToSetAfterLoad |-> "", mAmbiance |-> NoPlayer, mMusicTrack |-> NoPlayer,
     mSoundPlayers |-> 0, mActiveThemeEntry |-> NoEntry, busy |-> FALSE]

SetState(s, state) == IF s.mState # state THEN [s EXCEPT !.mState = state] ELSE s

\* eventOnLoad is "" for a null pointer
SetMusicTheme(s, themeName, eventOnLoad) ==
    LET s1 == [s EXCEPT !.mAmbiance = NoPlayer, !.mMusicTrack = NoPlayer,
                        !.mThemeToLoad = LocateSoundTheme(themeName),
                        !.mEventToSetAfterLoad = eventOnLoad]
    IN  IF s1.mThemeToLoad # NoTheme
        THEN IF s.mState # "eIdle" THEN SetState(s1, "eCancel")
             ELSE SetState(s1, "eUnloadingActiveSoundTheme")
        ELSE s1

IsLoading(s) == s.mState # "eIdle"

\* PlaySound(name, nullptr, true, true, true): the cached sound, or null
PlaySound(theme, entry, cached) == IF cached THEN [theme |-> theme, entry |-> entry] ELSE NoPlayer

PlayThemeEntry(s, entryName, cached) ==
    IF s.mActiveTheme # NoTheme
    THEN LET entry == IF entryName \in ThemeEntries(s.mActiveTheme) THEN entryName ELSE NoEntry
         IN  [s |-> [s EXCEPT !.mActiveThemeEntry = entry],
              ret |-> IF entry # NoEntry THEN PlaySound(s.mActiveTheme, entry, cached)
                      ELSE NoPlayer]
    ELSE [s |-> s, ret |-> NoPlayer]

EnsureAmbiance(s, cached) ==
    IF s.mAmbiance = NoPlayer
    THEN LET r == PlayThemeEntry(s, "AMBIANCE", cached) IN [r.s EXCEPT !.mAmbiance = r.ret]
    ELSE s

HandleMusicEvent(s, eventName, cachedAmbiance, cached) ==
    LET s1 == EnsureAmbiance(s, cachedAmbiance)
    IN  IF eventName = "AMBIANCE" THEN [s1 EXCEPT !.mMusicTrack = NoPlayer]
        ELSE LET r == PlayThemeEntry(s1, eventName, cached)
             IN  IF r.ret # NoPlayer THEN [r.s EXCEPT !.mMusicTrack = r.ret] ELSE r.s

PlaySoundEffect(s, cached) == IF cached THEN [s EXCEPT !.mSoundPlayers = @ + 1] ELSE s

\* the themes of the model have entries, so adding gives the cache work
CacheActiveTheme(s, add) == IF add THEN [s EXCEPT !.busy = TRUE] ELSE s

UpdateState_Mutant(s, cachedAmbiance, cached) ==
    CASE s.mState = "eCancel" -> SetState(s, "eCancelling")
      [] s.mState = "eCancelling" ->
            IF ~s.busy THEN SetState(s, "eLoadActiveSoundTheme") ELSE s
      [] s.mState = "eUnloadingActiveSoundTheme" ->
            SetState([(IF s.mActiveTheme # NoTheme THEN CacheActiveTheme(s, FALSE) ELSE s)
                        EXCEPT !.mActiveTheme = s.mThemeToLoad, !.mThemeToLoad = NoTheme],
                     "eLoadActiveSoundTheme")
      [] s.mState = "eLoadActiveSoundTheme" ->
            SetState(IF s.mActiveTheme # NoTheme THEN CacheActiveTheme(s, TRUE) ELSE s,
                     "eLoadingActiveSoundTheme")
      [] s.mState = "eLoadingActiveSoundTheme" ->
            IF ~s.busy
            THEN LET a == SetState(s, "eIdle")
                 IN  IF a.mEventToSetAfterLoad # ""
                     THEN [HandleMusicEvent(a, a.mEventToSetAfterLoad, cachedAmbiance, cached)
                             EXCEPT !.mEventToSetAfterLoad = ""]
                     ELSE a
            ELSE s
      [] OTHER -> s

\* the switch of Update, lines 216-265
UpdateState(s, cachedAmbiance, cached) ==
    CASE s.mState = "eCancel" -> SetState(s, "eCancelling")
      [] s.mState = "eCancelling" ->
            IF ~s.busy THEN SetState(s, "eUnloadingActiveSoundTheme") ELSE s
      [] s.mState = "eUnloadingActiveSoundTheme" ->
            SetState([(IF s.mActiveTheme # NoTheme THEN CacheActiveTheme(s, FALSE) ELSE s)
                        EXCEPT !.mActiveTheme = s.mThemeToLoad, !.mThemeToLoad = NoTheme],
                     "eLoadActiveSoundTheme")
      [] s.mState = "eLoadActiveSoundTheme" ->
            SetState(IF s.mActiveTheme # NoTheme THEN CacheActiveTheme(s, TRUE) ELSE s,
                     "eLoadingActiveSoundTheme")
      [] s.mState = "eLoadingActiveSoundTheme" ->
            IF ~s.busy
            THEN LET a == SetState(s, "eIdle")
                 IN  IF a.mEventToSetAfterLoad # ""
                     THEN [HandleMusicEvent(a, a.mEventToSetAfterLoad, cachedAmbiance, cached)
                             EXCEPT !.mEventToSetAfterLoad = ""]
                     ELSE a
            ELSE s
      [] OTHER -> s

\* the players of Update, lines 267-308: atEnd of the sound effects have
\* ended; track says what the music track does
UpdatePlayers(s, atEnd, track) ==
    LET s1 == [s EXCEPT !.mSoundPlayers = @ - atEnd]
    IN  IF s1.mMusicTrack # NoPlayer /\ track # "playing"
        THEN [s1 EXCEPT !.mMusicTrack =
                 IF track = "next"
                 THEN PlaySound(s.mMusicTrack.theme, s.mMusicTrack.entry, TRUE)
                 ELSE NoPlayer]
        ELSE s1

\* track: the music track has not ended; has ended and ToNextEntry gives an
\* entry that is cached; has ended and the entry is not cached or there is
\* none
TrackOutcomes == {"playing", "next", "silent"}

Sound_Update(s, cachedAmbiance, cached, atEnd, track) ==
    UpdatePlayers(UpdateState(s, cachedAmbiance, cached), atEnd, track)

InitSound ==
    /\ \E requests \in 0..MaxThemeRequests, tasks \in 0..MaxCacheTasks :
          sound = [f \in DOMAIN NewSound \cup {"requestsLeft", "tasksLeft", "taskPc"} |->
                     CASE f = "requestsLeft" -> requests
                       [] f = "tasksLeft" -> tasks
                       [] f = "taskPc" -> "none"
                       [] OTHER -> NewSound[f]]
    /\ stream = <<>>
    /\ masher = NewMasher
    /\ phase = "new"
    /\ thrown = NoException
    /\ updateCalls = <<>>
    /\ video = IdleVideo
    /\ vlc = IdleVlc
    /\ audio = IdleAudio

SetMusicTheme_Call ==
    /\ sound.pc = "sound"
    /\ sound.requestsLeft > 0
    /\ \E themeName \in ThemeNames, eventOnLoad \in {"", "BASE_LINE"} :
          sound' = [SetMusicTheme(sound, themeName, eventOnLoad) EXCEPT
                      !.requestsLeft = @ - 1]
    /\ UNCHANGED <<containerVars, video, vlc, audio>>

HandleMusicEvent_Call ==
    /\ sound.pc = "sound"
    /\ \E eventName \in MusicEvents, cachedAmbiance \in BOOLEAN, cached \in BOOLEAN :
          sound' = HandleMusicEvent(sound, eventName, cachedAmbiance, cached)
    /\ UNCHANGED <<containerVars, video, vlc, audio>>

PlaySoundEffect_Call ==
    /\ sound.pc = "sound"
    /\ sound.mSoundPlayers < MaxSoundPlayers
    /\ \E cached \in BOOLEAN :
          sound' = PlaySoundEffect(sound, cached)
    /\ UNCHANGED <<containerVars, video, vlc, audio>>

Update_Call ==
    /\ sound.pc = "sound"
    /\ \E cachedAmbiance \in BOOLEAN, cached \in BOOLEAN,
          atEnd \in 0..sound.mSoundPlayers, track \in TrackOutcomes :
          sound' = Sound_Update(sound, cachedAmbiance, cached, atEnd, track)
    /\ UNCHANGED <<containerVars, video, vlc, audio>>

\* CacheMemoryResidentSounds: std::async starts the task and returns
CacheMemoryResidentSounds_Call ==
    /\ sound.pc = "sound"
    /\ sound.tasksLeft > 0
    /\ sound.taskPc \in {"none", "done"}
    /\ sound' = [sound EXCEPT !.tasksLeft = @ - 1, !.taskPc = "launched"]
    /\ UNCHANGED <<containerVars, video, vlc, audio>>

\* the task, on its own thread: SetState, then the caching
CacheMemoryResidentSounds_SetState ==
    /\ sound.pc = "sound"
    /\ sound.taskPc = "launched"
    /\ sound' = [SetState(sound, "eLoadingSoundEffects") EXCEPT !.taskPc = "caching",
                                                                !.busy = TRUE]
    /\ UNCHANGED <<containerVars, video, vlc, audio>>

CacheMemoryResidentSounds_Return ==
    /\ sound.pc = "sound"
    /\ sound.taskPc = "caching"
    /\ sound' = [sound EXCEPT !.taskPc = "done"]
    /\ UNCHANGED <<containerVars, video, vlc, audio>>

\* the cache's loader has finished what it was given
SoundCache_Done ==
    /\ sound.pc = "sound"
    /\ sound.busy
    /\ sound' = [sound EXCEPT !.busy = FALSE]
    /\ UNCHANGED <<containerVars, video, vlc, audio>>

NextSound ==
    \/ SetMusicTheme_Call
    \/ HandleMusicEvent_Call
    \/ PlaySoundEffect_Call
    \/ Update_Call
    \/ CacheMemoryResidentSounds_Call
    \/ CacheMemoryResidentSounds_SetState
    \/ CacheMemoryResidentSounds_Return
    \/ SoundCache_Done

SpecSound == InitSound /\ [][NextSound]_vars

\* the main loop calls Update every frame, and the loader works off what
\* the cache was given
SpecSoundFair == SpecSound /\ WF_vars(Update_Call) /\ WF_vars(SoundCache_Done)

(***************************************************************************)
(* The load of a theme, checked under SpecSoundFair.                       *)
(***************************************************************************)
\* no SetMusicTheme call is to come, and no CacheMemoryResidentSounds task
\* is to come or running
Undisturbed(s) ==
    /\ s.pc = "sound"
    /\ s.requestsLeft = 0
    /\ s.tasksLeft = 0
    /\ s.taskPc \in {"none", "done"}

\* SetMusicTheme(T) has been called and Update has not run the request yet
ThemeRequested(T) ==
    /\ Undisturbed(sound)
    /\ sound.mThemeToLoad = T
    /\ sound.mState \in {"eCancel", "eUnloadingActiveSoundTheme"}

ThemeLoaded(T) ==
    /\ sound.mState = "eIdle"
    /\ sound.mActiveTheme = T
    /\ sound.mThemeToLoad = NoTheme

LoadOrder ==
    { <<"eCancel", "eCancelling">>,
      <<"eCancelling", "eUnloadingActiveSoundTheme">>,
      <<"eUnloadingActiveSoundTheme", "eLoadActiveSoundTheme">>,
      <<"eLoadActiveSoundTheme", "eLoadingActiveSoundTheme">>,
      <<"eLoadingActiveSoundTheme", "eIdle">> }

\* the state after SetMusicTheme, and the changes of state after it
LoadStep ==
    /\ (sound.pc = "sound" /\ sound'.requestsLeft = sound.requestsLeft - 1
          /\ sound'.mThemeToLoad # NoTheme) =>
            sound'.mState = IF sound.mState = "eIdle" THEN "eUnloadingActiveSoundTheme"
                            ELSE "eCancel"
    /\ (Undisturbed(sound) /\ sound'.mState # sound.mState) =>
            /\ <<sound.mState, sound'.mState>> \in LoadOrder
            /\ sound'.mThemeToLoad =
                  IF sound.mState \in {"eCancel", "eCancelling"} THEN sound.mThemeToLoad
                  ELSE NoTheme
            /\ sound'.mActiveTheme =
                  IF sound.mState = "eUnloadingActiveSoundTheme" THEN sound.mThemeToLoad
                  ELSE sound.mActiveTheme

\* C34: after SetMusicTheme(T) for a theme T the locator finds, with no
\* SetMusicTheme call and no CacheMemoryResidentSounds task after it and the
\* cache's loader finishing, the Update calls lead to eIdle with T the
\* active theme and no theme to load, and the state gets there by eCancel and
\* eCancelling (when the call came in a state other than eIdle), then
\* eUnloadingActiveSoundTheme, eLoadActiveSoundTheme, eLoadingActiveSoundTheme.
C34_ThemeLoadRunsToIdle ==
    /\ [][LoadStep]_vars
    /\ \A T \in SoundThemes : ThemeRequested(T) ~> ThemeLoaded(T)

\* theme B has been loaded after the CacheMemoryResidentSounds task, and
\* its BASE_LINE entry plays
C34_Witness ==
    /\ ThemeLoaded("B")
    /\ Undisturbed(sound)
    /\ sound.mEventToSetAfterLoad = ""
    /\ sound.mMusicTrack = [theme |-> "B", entry |-> "BASE_LINE"]
    /\ sound.taskPc = "done"

(***************************************************************************)
(* SetMusicTheme with a name the locator does not find, checked under      *)
(* SpecSound.                                                              *)
(***************************************************************************)
UnknownThemeCall ==
    /\ sound.pc = "sound"
    /\ \E themeName \in ThemeNames \ SoundThemes, eventOnLoad \in {"", "BASE_LINE"} :
          sound' = [SetMusicTheme(sound, themeName, eventOnLoad) EXCEPT !.requestsLeft = @ - 1]

\* C35: SetMusicTheme with a theme name the locator does not find leaves the
\* state, the theme to load, the event to set after the load, the ambiance
\* player and the music track as they were.
C35_UnknownThemeChangesNothing ==
    [][UnknownThemeCall =>
          /\ sound'.mState = sound.mState
          /\ sound'.mThemeToLoad = sound.mThemeToLoad
          /\ sound'.mEventToSetAfterLoad = sound.mEventToSetAfterLoad
          /\ sound'.mAmbiance = sound.mAmbiance
          /\ sound'.mMusicTrack = sound.mMusicTrack]_vars

(***************************************************************************)
(* The state after the CacheMemoryResidentSounds task, checked under       *)
(* SpecSoundFair.                                                          *)
(***************************************************************************)
TaskFinished ==
    /\ sound.pc = "sound"
    /\ sound.taskPc = "done"
    /\ sound.tasksLeft = 0
    /\ sound.requestsLeft = 0
    /\ ~sound.busy

\* C37: after the task started by CacheMemoryResidentSounds has finished and
\* the cache is not busy, with no SetMusicTheme call to come, the Update
\* calls lead to a state where IsLoading() is false.
C37_TaskLeavesLoadingState == TaskFinished ~> ~IsLoading(sound)

(***************************************************************************)
(* The main thread and the audio thread on mAmbiance, mMusicTrack and      *)
(* mSoundPlayers.  A handler is the sequence of its operations on          *)
(* mSoundPlayersMutex and on the three members, in the order of the        *)
(* source; a thread takes one operation per step.  The members get the     *)
(* handler's values when it is entered: only the main thread writes them,  *)
(* and Play changes none.                                                  *)
(***************************************************************************)
Lock(line) == [op |-> "lock", member |-> "mSoundPlayersMutex", line |-> line]
Unlock(line) == [op |-> "unlock", member |-> "mSoundPlayersMutex", line |-> line]
Access(op, member, line) == [op |-> op, member |-> member, line |-> line]

SetMusicTheme_Accesses ==
    <<Access("write", "mAmbiance", 30), Access("write", "mMusicTrack", 31)>>

EnsureAmbiance_Accesses(s) ==
    <<Lock(177), Access("read", "mAmbiance", 178)>>
    \o (IF s.mAmbiance = NoPlayer THEN <<Access("write", "mAmbiance", 180)>> ELSE <<>>)
    \o <<Unlock(182)>>

HandleMusicEvent_Accesses(s, eventName, cached) ==
    EnsureAmbiance_Accesses(s)
    \o (IF eventName = "AMBIANCE" THEN <<Access("write", "mMusicTrack", 97)>>
        ELSE IF PlayThemeEntry(s, eventName, cached).ret # NoPlayer
             THEN <<Access("write", "mMusicTrack", 104)>>
             ELSE <<>>)

PlaySoundEffect_Accesses(cached) ==
    IF cached THEN <<Lock(113), Access("write", "mSoundPlayers", 114), Unlock(115)>>
    ELSE <<>>

Play_Accesses ==
    <<Lock(187), Access("read", "mAmbiance", 189), Access("read", "mMusicTrack", 194),
      Access("read", "mSoundPlayers", 199), Unlock(204)>>

Update_Accesses(s, cachedAmbiance, cached, track) ==
    (IF s.mState = "eLoadingActiveSoundTheme" /\ ~s.busy /\ s.mEventToSetAfterLoad # ""
     THEN HandleMusicEvent_Accesses(s, s.mEventToSetAfterLoad, cached)
     ELSE <<>>)
    \o <<Lock(267), Access("write", "mSoundPlayers", 268), Access("read", "mAmbiance", 280),
         Access("read", "mMusicTrack", 289)>>
    \o (IF UpdateState(s, cachedAmbiance, cached).mMusicTrack # NoPlayer /\ track # "playing"
        THEN <<Access("write", "mMusicTrack", IF track = "next" THEN 296 ELSE 300)>>
        ELSE <<>>)
    \o <<Access("read", "mSoundPlayers", 305), Unlock(309)>>

SoundThreads == {"main", "audio"}

InitSoundThreads ==
    /\ \E requests \in 1..MaxThemeRequests :
          sound = [f \in DOMAIN NewSound \cup {"requestsLeft", "tasksLeft", "taskPc",
                                               "holder", "ops"} |->
                     CASE f = "requestsLeft" -> requests
                       [] f = "tasksLeft" -> 0
                       [] f = "taskPc" -> "none"
                       [] f = "holder" -> "none"
                       [] f = "ops" -> [thread \in SoundThreads |-> <<>>]
                       [] OTHER -> NewSound[f]]
    /\ stream = <<>>
    /\ masher = NewMasher
    /\ phase = "new"
    /\ thrown = NoException
    /\ updateCalls = <<>>
    /\ video = IdleVideo
    /\ vlc = IdleVlc
    /\ audio = IdleAudio

\* the main thread is in no handler
MainReturned == sound.pc = "sound" /\ "ops" \in DOMAIN sound /\ sound.ops["main"] = <<>>

SetMusicTheme_Enter ==
    /\ MainReturned
    /\ sound.requestsLeft > 0
    /\ \E themeName \in ThemeNames, eventOnLoad \in {"", "BASE_LINE"} :
          sound' = [SetMusicTheme(sound, themeName, eventOnLoad) EXCEPT
                      !.requestsLeft = @ - 1, !.ops["main"] = SetMusicTheme_Accesses]
    /\ UNCHANGED <<containerVars, video, vlc, audio>>

HandleMusicEvent_Enter ==
    /\ MainReturned
    /\ \E eventName \in MusicEvents, cachedAmbiance \in BOOLEAN, cached \in BOOLEAN :
          sound' = [HandleMusicEvent(sound, eventName, cachedAmbiance, cached) EXCEPT
                      !.ops["main"] = HandleMusicEvent_Accesses(sound, eventName, cached)]
    /\ UNCHANGED <<containerVars, video, vlc, audio>>

PlaySoundEffect_Enter ==
    /\ MainReturned
    /\ sound.mSoundPlayers < MaxSoundPlayers
    /\ \E cached \in BOOLEAN :
          sound' = [PlaySoundEffect(sound, cached) EXCEPT
                      !.ops["main"] = PlaySoundEffect_Accesses(cached)]
    /\ UNCHANGED <<containerVars, video, vlc, audio>>

Update_Enter ==
    /\ MainReturned
    /\ \E cachedAmbiance \in BOOLEAN, cached \in BOOLEAN,
          atEnd \in 0..sound.mSoundPlayers, track \in TrackOutcomes :
          sound' = [Sound_Update(sound, cachedAmbiance, cached, atEnd, track) EXCEPT
                      !.ops["main"] = Update_Accesses(sound, cachedAmbiance, cached, track)]
    /\ UNCHANGED <<containerVars, video, vlc, audio>>

\* the audio callback
Play_Enter ==
    /\ sound.pc = "sound"
    /\ "ops" \in DOMAIN sound
    /\ sound.ops["audio"] = <<>>
    /\ sound' = [sound EXCEPT !.ops["audio"] = Play_Accesses]
    /\ UNCHANGED <<containerVars, video, vlc, audio>>

\* the next operation of a thread; lock waits while the other thread holds
\* the mutex
ThreadStep(thread) ==
    /\ sound.pc = "sound"
    /\ "ops" \in DOMAIN sound
    /\ sound.ops[thread] # <<>>
    /\ LET o == Head(sound.ops[thread])
       IN  /\ o.op = "lock" => sound.holder \in {"none", thread}
           /\ sound' = [sound EXCEPT !.ops[thread] = Tail(@),
                                     !.holder = CASE o.op = "lock" -> thread
                                                  [] o.op = "unlock" -> "none"
                                                  [] OTHER -> @]
    /\ UNCHANGED <<containerVars, video, vlc, audio>>

NextSoundThreads ==
    \/ SetMusicTheme_Enter
    \/ HandleMusicEvent_Enter
    \/ PlaySoundEffect_Enter
    \/ Update_Enter
    \/ Play_Enter
    \/ \E thread \in SoundThreads : ThreadStep(thread)
    \/ SoundCache_Done

SpecSoundThreads == InitSoundThreads /\ [][NextSoundThreads]_vars

PlayerMembers == {"mAmbiance", "mMusicTrack", "mSoundPlayers"}

\* C36: every read and write of mAmbiance, mMusicTrack and mSoundPlayers, by
\* the main thread and by the audio thread, is made by a thread that holds
\* mSoundPlayersMutex, and no thread locks the mutex while it holds it.
C36_PlayersOnlyUnderMutex ==
    [][\A thread \in SoundThreads :
          /\ sound.pc = "sound" /\ "ops" \in DOMAIN sound /\ sound.ops[thread] # <<>>
               /\ sound'.ops[thread] = Tail(sound.ops[thread])
               /\ Head(sound.ops[thread]).member \in PlayerMembers
             => sound.holder = thread
          /\ sound.pc = "sound" /\ "ops" \in DOMAIN sound /\ sound.ops[thread] # <<>>
               /\ sound'.ops[thread] = Tail(sound.ops[thread])
               /\ Head(sound.ops[thread]).op = "lock"
             => sound.holder # thread]_vars

====
